---------------------------- MODULE Spec2Model ----------------------------
(***************************************************************************)
(* Model of github-mcp-worker: the credential resolver, the stateless      *)
(* OAuth facade (metadata / register / token), the GitHub API client and   *)
(* the two transport adapters (edge worker fetch handler, local Node HTTP  *)
(* server).                                                                *)
(*                                                                         *)
(* Strings are TLA+ strings; TLC evaluates Len, \o and SubSeq on them, so  *)
(* startsWith / slice / split are computed character by character.         *)
(* A JavaScript value that may be undefined is an Option record            *)
(* [some, v]: None is undefined (or null for headers.get), Some(s) is the  *)
(* string s.                                                               *)
(***************************************************************************)
EXTENDS Integers, Sequences, FiniteSets, TLC

VARIABLES
    GITHUB_PAT,   \* edge: env.GITHUB_PAT, the operator-provisioned default
    argv,         \* local: process.argv.slice(2)
    processEnv,   \* local: process.env.GITHUB_PAT
    pat,          \* local: the module-level const pat of main.ts
    conns,        \* in-flight /mcp requests, one record per connection slot
    lastReq,      \* OAuth facade: the request handled last
    lastResp,     \* OAuth facade: the outcome of the request handled last
    issued,       \* client_id/client_secret pairs handed out so far, each
                  \* with the random bytes it was made from (observer)
    nRegistered   \* number of successful registrations so far (observer)

vars == <<GITHUB_PAT, argv, processEnv, pat, conns, lastReq, lastResp,
          issued, nRegistered>>

config == <<GITHUB_PAT, argv, processEnv, pat>>

oauthVars == <<lastReq, lastResp, issued, nRegistered>>

-----------------------------------------------------------------------------
(* Bounds *)

MaxConns == 1

MaxRegistrations == 2

-----------------------------------------------------------------------------
(* JavaScript values *)

None == [some |-> FALSE, v |-> ""]

Some(s) == [some |-> TRUE, v |-> s]

\* JavaScript truthiness of an optional string: undefined and "" are falsy.
Truthy(o) == o.some /\ o.v # ""

\* a || b on optional strings
Or(a, b) == IF Truthy(a) THEN a ELSE b

\* String.prototype.startsWith
startsWith(s, p) == Len(s) >= Len(p) /\ SubSeq(s, 1, Len(p)) = p

\* String.prototype.slice(n) for 0 <= n
slice(s, n) == IF n >= Len(s) THEN "" ELSE SubSeq(s, n + 1, Len(s))

\* String.prototype.includes
includes(s, p) == \E i \in 1..(Len(s) - Len(p) + 1) : SubSeq(s, i, i + Len(p) - 1) = p


-----------------------------------------------------------------------------
(* JavaScript values of parsed request bodies.                             *)
(* A value is a record [t, s, n, items]: t is the type tag, s the payload  *)
(* of a string, n the payload of a number (or 1/0 for true/false), items   *)
(* the elements of an array or the <<key, value>> entries of an object in  *)
(* insertion order (a later entry with the same key wins).                 *)

Value(t, s, n, items) == [t |-> t, s |-> s, n |-> n, items |-> items]

Undefined == Value("undefined", "", 0, <<>>)

Null == Value("null", "", 0, <<>>)

Str(s) == Value("string", s, 0, <<>>)

Num(n) == Value("number", "", n, <<>>)

Bool(b) == Value("boolean", "", IF b THEN 1 ELSE 0, <<>>)

Arr(items) == Value("array", "", 0, items)

Obj(entries) == Value("object", "", 0, entries)

\* ToBoolean
IsTruthy(v) ==
    CASE v.t = "undefined" -> FALSE
      [] v.t = "null"      -> FALSE
      [] v.t = "string"    -> v.s # ""
      [] v.t = "number"    -> v.n # 0
      [] v.t = "boolean"   -> v.n = 1
      [] OTHER             -> TRUE

\* v.key for a value that is neither null nor undefined: own entries of an
\* object (last one wins); primitives and arrays have no such property.
Get(v, key) ==
    IF v.t = "object" /\ \E i \in 1..Len(v.items) : v.items[i][1] = key
    THEN v.items[CHOOSE i \in 1..Len(v.items) :
                    /\ v.items[i][1] = key
                    /\ \A j \in (i + 1)..Len(v.items) : v.items[j][1] # key][2]
    ELSE Undefined

Digit(d) == SubSeq("0123456789", d + 1, d + 1)

RECURSIVE NatToString(_)
NatToString(n) == IF n < 10 THEN Digit(n) ELSE NatToString(n \div 10) \o Digit(n % 10)

\* StringOf, as a template literal `${v}` applies it
RECURSIVE StringOf(_)
RECURSIVE Join(_, _)
StringOf(v) ==
    CASE v.t = "undefined" -> "undefined"
      [] v.t = "null"      -> "null"
      [] v.t = "string"    -> v.s
      [] v.t = "number"    -> NatToString(v.n)
      [] v.t = "boolean"   -> IF v.n = 1 THEN "true" ELSE "false"
      [] v.t = "array"     -> Join(v.items, 1)
      [] OTHER             -> "[object Object]"

\* Array.prototype.join(","): null and undefined elements become ""
Join(items, i) ==
    IF i > Len(items) THEN ""
    ELSE (IF items[i].t \in {"null", "undefined"} THEN "" ELSE StringOf(items[i]))
         \o (IF i < Len(items) THEN "," ELSE "")
         \o Join(items, i + 1)

\* The characters of s at 1-based positions i..j, cut at the end of s
Sub(s, i, j) == IF i > Len(s) THEN "" ELSE SubSeq(s, i, IF j > Len(s) THEN Len(s) ELSE j)

\* The character of s at 1-based position i, "" past the end
At(s, i) == IF i >= 1 /\ i <= Len(s) THEN SubSeq(s, i, i) ELSE ""

\* 1-based position of the first occurrence of character ch in s at or
\* after position i, 0 when there is none.  (Here and below a value that is
\* used more than once is passed to a local operator, which computes it
\* once.)
IndexFrom(s, ch, i) ==
    LET first(hits) == IF hits = {} THEN 0 ELSE CHOOSE k \in hits : \A j \in hits : k <= j
    IN  first({k \in i..Len(s) : SubSeq(s, k, k) = ch})

-----------------------------------------------------------------------------
(* new URLSearchParams(text): the application/x-www-form-urlencoded parser *)
(* of the URL standard.  It never throws.                                  *)

\* The printable ASCII characters, code 32 first (code 96, the grave accent,
\* cannot be written in a string here and is shown as "?")
Ascii == " !\"#$%&'()*+,-./0123456789:;<=>?@ABCDEFGHIJKLMNOPQRSTUVWXYZ[\\]^_?abcdefghijklmnopqrstuvwxyz{|}~"

HexDigits == "0123456789ABCDEFabcdef"

IsHex(ch) == ch # "" /\ IndexFrom(HexDigits, ch, 1) # 0

HexVal(ch) ==
    LET value(k) == IF k <= 16 THEN k - 1 ELSE k - 7
    IN  value(IndexFrom(HexDigits, ch, 1))

\* An escape starts at position p: "%" followed by two hex digits.  Escapes
\* cannot overlap, because a hex digit is never "%".
IsEscape(s, p) == At(s, p) = "%" /\ IsHex(At(s, p + 1)) /\ IsHex(At(s, p + 2))

\* What position p contributes to the percent-decoded string; a "%" not
\* followed by two hex digits stays literal.  Only bytes of printable ASCII
\* are modelled (bodies use no others).
DecodedAt(s, p) ==
    LET byte(b) == IF b >= 32 /\ b <= 126 THEN At(Ascii, b - 31) ELSE "?"
    IN  IF IsEscape(s, p - 1) \/ IsEscape(s, p - 2) THEN ""
        ELSE IF IsEscape(s, p) THEN byte(16 * HexVal(At(s, p + 1)) + HexVal(At(s, p + 2)))
        ELSE At(s, p)

\* Percent-decoding of positions lo..hi (halving keeps the recursion shallow)
RECURSIVE PercentDecode(_, _, _)
PercentDecode(s, lo, hi) ==
    IF lo > hi THEN ""
    ELSE IF lo = hi THEN DecodedAt(s, lo)
    ELSE PercentDecode(s, lo, (lo + hi) \div 2)
         \o PercentDecode(s, (lo + hi) \div 2 + 1, hi)

\* Replace every "+" by a space
RECURSIVE PlusToSpace(_, _, _)
PlusToSpace(s, lo, hi) ==
    IF lo > hi THEN ""
    ELSE IF lo = hi THEN (IF At(s, lo) = "+" THEN " " ELSE At(s, lo))
    ELSE PlusToSpace(s, lo, (lo + hi) \div 2) \o PlusToSpace(s, (lo + hi) \div 2 + 1, hi)

\* Mutant: "+" is not turned into a space
FormDecode_KeepsPlus(s) == PercentDecode(s, 1, Len(s))

FormDecode(s) ==
    LET decode(spaced) == PercentDecode(spaced, 1, Len(spaced))
    IN  decode(PlusToSpace(s, 1, Len(s)))

\* One name=value sequence (non-empty): split at the first "="
FormPair(seg) ==
    LET split(eq) ==
            IF eq = 0
            THEN <<FormDecode(seg), Str("")>>
            ELSE <<FormDecode(Sub(seg, 1, eq - 1)),
                   Str(FormDecode(Sub(seg, eq + 1, Len(seg))))>>
    IN  split(IndexFrom(seg, "=", 1))

\* The entries of the text from position i on, split on "&"
RECURSIVE FormEntries(_, _)
FormEntries(s, i) ==
    LET entry(seg, end) ==
            (IF seg = "" THEN <<>> ELSE <<FormPair(seg)>>) \o FormEntries(s, end + 2)
        upTo(end) == entry(Sub(s, i, end), end)
        cut(amp) == upTo(IF amp = 0 THEN Len(s) ELSE amp - 1)
    IN  IF i > Len(s) THEN <<>> ELSE cut(IndexFrom(s, "&", i))

\* Object.fromEntries(new URLSearchParams(text)); a leading "?" is dropped
URLSearchParams(text) ==
    Obj(FormEntries(text, IF At(text, 1) = "?" THEN 2 ELSE 1))

-----------------------------------------------------------------------------
(* JSON.parse(text).  The grammar covers null, true, false, non-negative   *)
(* integers, strings with the escapes \" \\ \/, arrays and objects, with   *)
(* optional spaces between tokens; every text outside it is rejected, so   *)
(* body texts are chosen inside the grammar or outside JSON altogether.    *)
(* A parse result is [ok, v, pos]: pos is the position after the value.    *)

Fail == [ok |-> FALSE, v |-> Undefined, pos |-> 0]

Ok(v, pos) == [ok |-> TRUE, v |-> v, pos |-> pos]

RECURSIVE SkipWs(_, _)
SkipWs(s, i) == IF At(s, i) \in {" ", "\n", "\t", "\r"} THEN SkipWs(s, i + 1) ELSE i

IsDigit(ch) == ch # "" /\ IndexFrom("0123456789", ch, 1) # 0

RECURSIVE ScanNumber(_, _, _)
ScanNumber(s, i, acc) ==
    LET digit(ch) ==
            IF IsDigit(ch)
            THEN ScanNumber(s, i + 1, 10 * acc + (IndexFrom("0123456789", ch, 1) - 1))
            ELSE Ok(Num(acc), i)
    IN  digit(At(s, i))

\* Number of consecutive backslashes that end right before position j,
\* counted no further back than position i
BackslashRun(s, i, j) ==
    Cardinality({k \in i..(j - 1) : \A m \in k..(j - 1) : At(s, m) = "\\"})

\* A backslash at p (inside a string that starts at i) opens an escape
\* when an even number of backslashes precedes it
OpensEscape(s, i, p) == At(s, p) = "\\" /\ BackslashRun(s, i, p) % 2 = 0

\* The characters of positions lo..hi with the escaping backslashes dropped
RECURSIVE Unescape(_, _, _, _)
Unescape(s, i, lo, hi) ==
    IF lo > hi THEN ""
    ELSE IF lo = hi THEN (IF OpensEscape(s, i, lo) THEN "" ELSE At(s, lo))
    ELSE Unescape(s, i, lo, (lo + hi) \div 2) \o Unescape(s, i, (lo + hi) \div 2 + 1, hi)

\* A string whose opening quote is right before position i: it ends at the
\* first quote that no backslash escapes; the escapes are \" \\ and \/
ScanString(s, i) ==
    LET endsAt(j) ==
            IF \E p \in i..(j - 1) :
                   OpensEscape(s, i, p) /\ At(s, p + 1) \notin {"\"", "\\", "/"}
            THEN Fail
            ELSE Ok(Str(Unescape(s, i, i, j - 1)), j + 1)
        close(closers) ==
            IF closers = {} THEN Fail
            ELSE endsAt(CHOOSE c \in closers : \A d \in closers : c <= d)
    IN  close({j \in i..Len(s) : At(s, j) = "\"" /\ BackslashRun(s, i, j) % 2 = 0})

RECURSIVE ParseValue(_, _)
RECURSIVE ParseElements(_, _, _)
RECURSIVE ParseMembers(_, _, _)

ParseValue(s, i0) ==
    LET array(i, j) ==
            IF At(s, j) = "]" THEN Ok(Arr(<<>>), j + 1) ELSE ParseElements(s, i + 1, <<>>)
        object(i, j) ==
            IF At(s, j) = "}" THEN Ok(Obj(<<>>), j + 1) ELSE ParseMembers(s, i + 1, <<>>)
        value(i, ch) ==
            IF Sub(s, i, i + 3) = "null" THEN Ok(Null, i + 4)
            ELSE IF Sub(s, i, i + 3) = "true" THEN Ok(Bool(TRUE), i + 4)
            ELSE IF Sub(s, i, i + 4) = "false" THEN Ok(Bool(FALSE), i + 5)
            ELSE IF IsDigit(ch)
            THEN IF ch = "0" /\ IsDigit(At(s, i + 1)) THEN Fail ELSE ScanNumber(s, i, 0)
            ELSE IF ch = "\"" THEN ScanString(s, i + 1)
            ELSE IF ch = "[" THEN array(i, SkipWs(s, i + 1))
            ELSE IF ch = "{" THEN object(i, SkipWs(s, i + 1))
            ELSE Fail
        at(i) == value(i, At(s, i))
    IN  at(SkipWs(s, i0))

\* element ("," element)* "]"
ParseElements(s, i, acc) ==
    LET next(r, j) ==
            IF At(s, j) = "," THEN ParseElements(s, j + 1, Append(acc, r.v))
            ELSE IF At(s, j) = "]" THEN Ok(Arr(Append(acc, r.v)), j + 1)
            ELSE Fail
        element(r) == IF ~r.ok THEN Fail ELSE next(r, SkipWs(s, r.pos))
    IN  element(ParseValue(s, i))

\* string ":" value ("," string ":" value)* "}"
ParseMembers(s, i0, acc) ==
    LET next(j, e) ==
            IF At(s, j) = "," THEN ParseMembers(s, j + 1, e)
            ELSE IF At(s, j) = "}" THEN Ok(Obj(e), j + 1)
            ELSE Fail
        member(k, r) ==
            IF ~r.ok THEN Fail ELSE next(SkipWs(s, r.pos), Append(acc, <<k.v.s, r.v>>))
        colon(k, c) == IF At(s, c) # ":" THEN Fail ELSE member(k, ParseValue(s, c + 1))
        key(k) == IF ~k.ok THEN Fail ELSE colon(k, SkipWs(s, k.pos))
        name(i) == IF At(s, i) # "\"" THEN Fail ELSE key(ScanString(s, i + 1))
    IN  name(SkipWs(s, i0))

\* JSON.parse: [ok |-> FALSE] stands for the SyntaxError it throws
JSONparse(text) ==
    LET whole(r) == IF r.ok /\ SkipWs(text, r.pos) = Len(text) + 1 THEN r ELSE Fail
    IN  whole(ParseValue(text, 1))

-----------------------------------------------------------------------------
(* What an HTTP client does to put fields into a body: the serializers     *)
(* that URLSearchParams and JSON.parse invert.                             *)

\* ASCII code of a printable character
Code(ch) == IndexFrom(Ascii, ch, 1) + 31

UpperHex(n) == At("0123456789ABCDEF", n + 1)

FormSafe == "*-._0123456789ABCDEFGHIJKLMNOPQRSTUVWXYZabcdefghijklmnopqrstuvwxyz"

\* application/x-www-form-urlencoded serializing of one name or value
RECURSIVE FormEncode(_, _, _)
FormEncode(s, lo, hi) ==
    LET escape(code) == "%" \o UpperHex(code \div 16) \o UpperHex(code % 16)
        encode(ch) ==
            IF ch = " " THEN "+"
            ELSE IF IndexFrom(FormSafe, ch, 1) # 0 THEN ch
            ELSE escape(Code(ch))
    IN  IF lo > hi THEN ""
        ELSE IF lo = hi THEN encode(At(s, lo))
        ELSE FormEncode(s, lo, (lo + hi) \div 2) \o FormEncode(s, (lo + hi) \div 2 + 1, hi)

\* JSON.stringify of a string, without the surrounding quotes
RECURSIVE JsonQuote(_, _, _)
JsonQuote(s, lo, hi) ==
    IF lo > hi THEN ""
    ELSE IF lo = hi
    THEN (IF At(s, lo) \in {"\"", "\\"} THEN "\\" \o At(s, lo) ELSE At(s, lo))
    ELSE JsonQuote(s, lo, (lo + hi) \div 2) \o JsonQuote(s, (lo + hi) \div 2 + 1, hi)

\* fields is a sequence of <<name, string value>> pairs
RECURSIVE FormBody(_, _)
FormBody(fields, i) ==
    IF i > Len(fields) THEN ""
    ELSE FormEncode(fields[i][1], 1, Len(fields[i][1])) \o "="
         \o FormEncode(fields[i][2], 1, Len(fields[i][2]))
         \o (IF i < Len(fields) THEN "&" ELSE "") \o FormBody(fields, i + 1)

RECURSIVE JsonMembers(_, _)
JsonMembers(fields, i) ==
    IF i > Len(fields) THEN ""
    ELSE "\"" \o JsonQuote(fields[i][1], 1, Len(fields[i][1])) \o "\":\""
         \o JsonQuote(fields[i][2], 1, Len(fields[i][2])) \o "\""
         \o (IF i < Len(fields) THEN "," ELSE "") \o JsonMembers(fields, i + 1)

JsonBody(fields) == "{" \o JsonMembers(fields, 1) \o "}"

-----------------------------------------------------------------------------
(* Inputs: credentials, Authorization header values, tool calls.           *)
(* Header values are what Headers.get / Node's req.headers return: the     *)
(* platform strips leading and trailing whitespace, so no value here       *)
(* starts or ends with a space.                                            *)

\* Bearer credentials a caller may send (opaque; one begins with a space and
\* has an interior space, one looks like a header itself).
Creds == {"tA", " t B", "Bearer tA"}

AuthHeaders ==
    {None} \cup {Some("Bearer " \o c) : c \in Creds}
           \cup {Some("bearer tA"), Some("Bearer")}

\* Further headers that carry no bearer token: nothing after the scheme,
\* another scheme, no space after the scheme
OtherAuthHeaders == {Some("Bearer "), Some("Basic tA"), Some("BearertA")}

\* Values of the edge secret env.GITHUB_PAT (undefined when not configured).
DefaultPats == {None, Some(""), Some("tD"), Some("tA")}

\* Command lines of the local process (args after the script name).
ArgvSet ==
    { <<>>, <<"--port", "3001">>, <<"--github-pat", "tL">>,
      <<"--port", "3001", "--github-pat">>, <<"--github-pat", "">> }

\* Values of process.env.GITHUB_PAT
ProcessEnvPats == {None, Some(""), Some("tE")}

Owners == {"anthropics"}

Repos == {"courses"}

NoCall == [tool |-> "none", owner |-> "", repo |-> ""]

\* tools/call bodies of an MCP request; NoCall is any other MCP message
\* (initialize, tools/list), which runs no tool handler.
ToolCalls ==
    {NoCall} \cup
    { [tool |-> t, owner |-> o, repo |-> r] :
        t \in {"get_repo", "get_readme"}, o \in Owners, r \in Repos }

-----------------------------------------------------------------------------
(* Credential resolver (auth.ts) *)

\* A header value without its leading and trailing whitespace, as the
\* runtime hands it out
RECURSIVE Trim(_)
Trim(v) ==
    IF v = "" THEN v
    ELSE IF At(v, 1) \in {" ", "\t"} THEN Trim(Sub(v, 2, Len(v)))
    ELSE IF At(v, Len(v)) \in {" ", "\t"} THEN Trim(Sub(v, 1, Len(v) - 1))
    ELSE v

\* headers.get("Authorization") on a request record
HeaderGet(request) ==
    IF request.authorization.some THEN Some(Trim(request.authorization.v)) ELSE None

\* Mutant: the token is taken as authHeader.split(" ")[1]
resolveGitHubToken_SplitOnSpace(request) ==
    LET authHeader == HeaderGet(request)
    IN  IF ~(authHeader.some /\ startsWith(authHeader.v, "Bearer "))
        THEN None
        ELSE LET rest == slice(authHeader.v, 7)
                 sp   == IndexFrom(rest, " ", 1)
             IN  Some(IF sp = 0 THEN rest ELSE Sub(rest, 1, sp - 1))

resolveGitHubToken_AnyScheme(request) ==
    LET authHeader == HeaderGet(request)
    IN  IF ~(authHeader.some /\ IndexFrom(authHeader.v, " ", 1) > 0)
        THEN None
        ELSE Some(slice(authHeader.v, IndexFrom(authHeader.v, " ", 1)))

resolveGitHubToken(request) ==
    LET authHeader == HeaderGet(request)
    IN  IF ~(authHeader.some /\ startsWith(authHeader.v, "Bearer "))
        THEN None
        ELSE Some(slice(authHeader.v, 7))

\* Mutant: the default credential takes precedence over the bearer token
resolvePat_DefaultFirst(request, env) == Or(env, resolveGitHubToken(request))

\* Edge worker: const pat = resolveGitHubToken(request) || env.GITHUB_PAT
resolvePat(request, env) == Or(resolveGitHubToken(request), env)

-----------------------------------------------------------------------------
(* GitHub API client (server.ts) *)

\* Mutant: the Authorization header is attached unconditionally
githubFetch_AlwaysAuthorized(path, p) ==
    [ url           |-> "https://api.github.com" \o path,
      accept        |-> "application/vnd.github.v3+json",
      userAgent     |-> "github-mcp",
      authorization |-> Some("Bearer " \o p.v) ]

\* The outbound request githubFetch builds: the Authorization header is
\* added only under `if (pat)`.
githubFetch(path, p) ==
    [ url           |-> "https://api.github.com" \o path,
      accept        |-> "application/vnd.github.v3+json",
      userAgent     |-> "github-mcp",
      authorization |-> IF Truthy(p) THEN Some("Bearer " \o p.v) ELSE None ]

githubRawFetch(path, p) ==
    [ url           |-> "https://api.github.com" \o path,
      accept        |-> "application/vnd.github.v3.raw",
      userAgent     |-> "github-mcp",
      authorization |-> IF Truthy(p) THEN Some("Bearer " \o p.v) ELSE None ]

\* Characters encodeURIComponent leaves as they are
UriUnreserved == "!'()*-._~0123456789ABCDEFGHIJKLMNOPQRSTUVWXYZabcdefghijklmnopqrstuvwxyz"

RECURSIVE encodeURIComponent(_, _, _)
encodeURIComponent(s, lo, hi) ==
    LET escape(code) == "%" \o UpperHex(code \div 16) \o UpperHex(code % 16)
        encode(ch) == IF IndexFrom(UriUnreserved, ch, 1) # 0 THEN ch ELSE escape(Code(ch))
    IN  IF lo > hi THEN ""
        ELSE IF lo = hi THEN encode(At(s, lo))
        ELSE encodeURIComponent(s, lo, (lo + hi) \div 2)
             \o encodeURIComponent(s, (lo + hi) \div 2 + 1, hi)

\* `${n}` for an integer n
NumberToString(n) == IF n < 0 THEN "-" \o NatToString(0 - n) ELSE NatToString(n)

\* Math.min
MathMin(a, b) == IF a < b THEN a ELSE b

\* per_page: z.number().optional().default(10)
PerPageArg(call) == IF call.per_page.some THEN call.per_page.v ELSE 10

\* The paginated tool handlers of createServer(p): the request each issues
search_repos(call, p) ==
    githubFetch("/search/repositories?q="
                    \o encodeURIComponent(call.query, 1, Len(call.query))
                    \o "&per_page=" \o NumberToString(MathMin(PerPageArg(call), 30)), p)

search_code(call, p) ==
    githubFetch("/search/code?q="
                    \o encodeURIComponent(call.query, 1, Len(call.query))
                    \o "&per_page=" \o NumberToString(MathMin(PerPageArg(call), 30)), p)

list_commits(call, p) ==
    githubFetch("/repos/" \o call.owner \o "/" \o call.repo \o "/commits?per_page="
                    \o NumberToString(MathMin(PerPageArg(call), 30))
                    \o (IF Truthy(call.path)
                        THEN "&path=" \o encodeURIComponent(call.path.v, 1, Len(call.path.v))
                        ELSE ""), p)

list_issues(call, p) ==
    githubFetch("/repos/" \o call.owner \o "/" \o call.repo \o "/issues?state="
                    \o call.state \o "&per_page="
                    \o NumberToString(MathMin(PerPageArg(call), 30))
                    \o (IF Truthy(call.labels)
                        THEN "&labels="
                                 \o encodeURIComponent(call.labels.v, 1, Len(call.labels.v))
                        ELSE ""), p)

get_issue_comments(call, p) ==
    githubFetch("/repos/" \o call.owner \o "/" \o call.repo \o "/issues/"
                    \o NumberToString(call.issue_number) \o "/comments?per_page="
                    \o NumberToString(MathMin(PerPageArg(call), 30)), p)

\* Mutant: per_page is written as the caller gave it
list_pulls_Unclamped(call, p) ==
    githubFetch("/repos/" \o call.owner \o "/" \o call.repo \o "/pulls?state="
                    \o call.state \o "&per_page=" \o NumberToString(PerPageArg(call)), p)

list_pulls(call, p) ==
    githubFetch("/repos/" \o call.owner \o "/" \o call.repo \o "/pulls?state="
                    \o call.state \o "&per_page="
                    \o NumberToString(MathMin(PerPageArg(call), 30)), p)

\* The outbound request a tool handler of createServer(p) issues for a call.
ToolRequest(call, p) ==
    CASE call.tool = "get_repo" ->
             githubFetch("/repos/" \o call.owner \o "/" \o call.repo, p)
      [] call.tool = "get_readme" ->
             githubRawFetch("/repos/" \o call.owner \o "/" \o call.repo \o "/readme", p)
      [] call.tool = "search_repos" -> search_repos(call, p)
      [] call.tool = "search_code" -> search_code(call, p)
      [] call.tool = "list_commits" -> list_commits(call, p)
      [] call.tool = "list_issues" -> list_issues(call, p)
      [] call.tool = "get_issue_comments" -> get_issue_comments(call, p)
      [] call.tool = "list_pulls" -> list_pulls(call, p)

\* per_page arguments of a call (None: the argument is omitted)
PerPages == {None} \cup {Some(n) : n \in {0 - 1, 3, 30, 31, 100}}

\* Search queries; the second one would add a parameter if written unencoded
Queries == {"mcp server", "a&per_page=100"}

\* repo strings (z.string() accepts any) that hold a path separator and
\* query text
QueryRepos == {"courses/pulls?per_page=100&x=", "courses?b=1"}

\* tools/call arguments of the paginated tools, as the schema hands them to
\* the handler
PagedCalls ==
    { [tool |-> "search_repos", query |-> q, per_page |-> n] :
        q \in Queries, n \in PerPages }
    \cup
    { [tool |-> "search_code", query |-> "a&per_page=100", per_page |-> n] :
        n \in PerPages }
    \cup
    { [tool |-> "list_commits", owner |-> o, repo |-> r, path |-> f, per_page |-> n] :
        o \in Owners, r \in Repos, f \in {None, Some("src/a b.ts")}, n \in PerPages }
    \cup
    { [tool |-> "list_commits", owner |-> o, repo |-> r, path |-> None, per_page |-> None] :
        o \in Owners, r \in QueryRepos }
    \cup
    { [tool |-> "list_issues", owner |-> o, repo |-> r, state |-> st[1], labels |-> st[2],
       per_page |-> n] :
        o \in Owners, r \in Repos,
        st \in {<<"open", None>>, <<"all", Some("bug&per_page=100")>>}, n \in PerPages }
    \cup
    { [tool |-> "get_issue_comments", owner |-> o, repo |-> r, issue_number |-> 42,
       per_page |-> n] :
        o \in Owners, r \in Repos, n \in PerPages }
    \cup
    { [tool |-> "list_pulls", owner |-> o, repo |-> r, state |-> st, per_page |-> n] :
        o \in Owners, r \in Repos, st \in {"closed"}, n \in PerPages }

-----------------------------------------------------------------------------
(* Local process configuration (main.ts) *)

\* args.indexOf(name): 0-based index of the first occurrence, or -1
indexOf(args, name) ==
    IF \E i \in 1..Len(args) : args[i] = name
    THEN (CHOOSE i \in 1..Len(args) :
              args[i] = name /\ \A j \in 1..(i - 1) : args[j] # name) - 1
    ELSE -1

getArg(args, name) ==
    LET idx == indexOf(args, name)
    IN  IF idx # -1 /\ idx + 1 < Len(args) THEN Some(args[idx + 2]) ELSE None

\* const pat = getArg("--github-pat") || process.env.GITHUB_PAT || undefined
StartupPat(args, envPat) == Or(Or(getArg(args, "--github-pat"), envPat), None)


-----------------------------------------------------------------------------
(* HTTP requests and responses *)

\* A request as the handlers see it (method, pathname, the two headers they
\* read, the body text, the MCP message) plus sent: the fields the client
\* serialized into text, which no handler reads.
Request(method, pathname, authorization, contentType, text, call, sent) ==
    [ method |-> method, pathname |-> pathname, authorization |-> authorization,
      contentType |-> contentType, text |-> text, call |-> call, sent |-> sent ]

NoFields ==
    [ enc |-> "raw", grant_type |-> None, client_id |-> None, client_secret |-> None,
      code |-> None, refresh_token |-> None, replay |-> FALSE ]

\* /mcp traffic (plus a preflight and the info page) of either deployment
McpRequests ==
    { Request(m, p, a, Some("application/json"), "", c, NoFields) :
        m \in {"POST"}, p \in {"/mcp", "/mcp/"}, a \in AuthHeaders, c \in ToolCalls }
    \cup
    { Request("POST", "/mcp", a, Some("application/json"), "",
              [tool |-> "get_repo", owner |-> o, repo |-> r], NoFields) :
        a \in OtherAuthHeaders, o \in Owners, r \in Repos }
    \cup
    { Request(m, p, None, None, "", NoCall, NoFields) :
        m \in {"OPTIONS", "GET"}, p \in {"/mcp", "/"} }

EmptyBody == [kind |-> "empty"]

TextBody(t) == [kind |-> "text", text |-> t]

\* new Response(body, {status, headers})
Response(status, contentType, cacheControl, allowOrigin, body) ==
    [ status |-> status, contentType |-> contentType, cacheControl |-> cacheControl,
      allowOrigin |-> allowOrigin, body |-> body ]

NoRequest == Request("", "", None, None, "", NoCall, NoFields)

NoResponse == Response(0, None, None, None, EmptyBody)

-----------------------------------------------------------------------------
(* OAuth facade (auth.ts) *)

\* jsonResponse(data, status): JSON.stringify(data) with Content-Type
\* application/json and Cache-Control no-store; data is kept as the record
\* that is serialized (a field holding Undefined is omitted by stringify).
\* Mutant: the Cache-Control header is left out
jsonResponse_Cacheable(data, status) ==
    Response(status, Some("application/json"), None, None, data)

jsonResponse(data, status) ==
    Response(status, Some("application/json"), Some("no-store"), None, data)

errorResponse(error, description, status) ==
    jsonResponse([kind |-> "error", error |-> error, error_description |-> description],
                 status)

\* An exception that leaves the handler uncaught
Thrown(name) == Response(0, None, None, None, [kind |-> "exception", name |-> name])

LowerHex(n) == At("0123456789abcdef", n + 1)

\* generateId: hex of the random bytes lo..hi, two digits per byte
RECURSIVE generateId_NoPad(_, _, _)
RECURSIVE generateId(_, _, _)
\* Mutant: toString(16) without padStart(2, "0")
generateId_NoPad(bytes, lo, hi) ==
    IF lo > hi THEN ""
    ELSE IF lo = hi
    THEN (IF bytes[lo] < 16 THEN "" ELSE LowerHex(bytes[lo] \div 16))
         \o LowerHex(bytes[lo] % 16)
    ELSE generateId_NoPad(bytes, lo, (lo + hi) \div 2)
         \o generateId_NoPad(bytes, (lo + hi) \div 2 + 1, hi)

generateId(bytes, lo, hi) ==
    IF lo > hi THEN ""
    ELSE IF lo = hi THEN LowerHex(bytes[lo] \div 16) \o LowerHex(bytes[lo] % 16)
    ELSE generateId(bytes, lo, (lo + hi) \div 2) \o generateId(bytes, (lo + hi) \div 2 + 1, hi)

issuerUrl == "https://mcp.example"

handleMetadata_AdvertisesPassword(issuer) ==
    jsonResponse(
        [ kind |-> "metadata",
          issuer |-> issuer,
          token_endpoint |-> issuer \o "/token",
          registration_endpoint |-> issuer \o "/register",
          response_types_supported |-> <<"code">>,
          grant_types_supported |->
              <<"client_credentials", "authorization_code", "refresh_token", "password">>,
          token_endpoint_auth_methods_supported |-> <<"client_secret_post">>,
          code_challenge_methods_supported |-> <<"S256">>,
          scopes_supported |-> <<"github">> ], 200)

handleMetadata(issuer) ==
    jsonResponse(
        [ kind |-> "metadata",
          issuer |-> issuer,
          token_endpoint |-> issuer \o "/token",
          registration_endpoint |-> issuer \o "/register",
          response_types_supported |-> <<"code">>,
          grant_types_supported |->
              <<"client_credentials", "authorization_code", "refresh_token">>,
          token_endpoint_auth_methods_supported |-> <<"client_secret_post">>,
          code_challenge_methods_supported |-> <<"S256">>,
          scopes_supported |-> <<"github">> ], 200)

handleResourceMetadata(serverUrl, issuer) ==
    jsonResponse(
        [ kind |-> "resource",
          resource |-> serverUrl,
          authorization_servers |-> <<issuer>>,
          scopes_supported |-> <<"github">>,
          bearer_methods_supported |-> <<"header">> ], 200)

\* a || b on values
ValueOr(a, b) == IF IsTruthy(a) THEN a ELSE b

\* handleRegister; bytes16, bytes32 are what crypto.getRandomValues fills in
\* and now is Date.now()
handleRegister(request, bytes16, bytes32, now) ==
    LET register(body, redirectUris) ==
            IF ~(redirectUris.t = "array") \/ Len(redirectUris.items) = 0
            THEN errorResponse("invalid_client_metadata", "redirect_uris is required", 400)
            ELSE jsonResponse(
                     [ kind |-> "client",
                       client_id |-> generateId(bytes16, 1, Len(bytes16)),
                       client_secret |-> generateId(bytes32, 1, Len(bytes32)),
                       redirect_uris |-> redirectUris,
                       client_name |-> ValueOr(Get(body, "client_name"), Str("MCP Client")),
                       grant_types |->
                           ValueOr(Get(body, "grant_types"),
                                   Arr(<<Str("client_credentials"),
                                         Str("authorization_code"),
                                         Str("refresh_token")>>)),
                       response_types |->
                           ValueOr(Get(body, "response_types"), Arr(<<Str("code")>>)),
                       token_endpoint_auth_method |->
                           ValueOr(Get(body, "token_endpoint_auth_method"),
                                   Str("client_secret_post")),
                       client_id_issued_at |-> now \div 1000,
                       client_secret_expires_at |-> 0 ], 201)
        json(parsed) ==
            IF ~parsed.ok
            THEN errorResponse("invalid_request", "Invalid JSON body", 400)
            ELSE IF parsed.v.t = "null"
            THEN Thrown("TypeError")
            ELSE register(parsed.v, Get(parsed.v, "redirect_uris"))
    IN  IF request.method # "POST"
        THEN errorResponse("invalid_request", "Method must be POST", 405)
        ELSE json(JSONparse(request.text))

\* parseBody: the parsed body, or Null for the null it returns when a parse
\* throws.  new URLSearchParams never throws, so with neither content type
\* declared the inner catch (JSON.parse) is never entered.
parseBody(request) ==
    LET json(parsed) == IF parsed.ok THEN parsed.v ELSE Null
        parse(contentType) ==
            IF includes(contentType, "application/x-www-form-urlencoded")
            THEN URLSearchParams(request.text)
            ELSE IF includes(contentType, "application/json")
            THEN json(JSONparse(request.text))
            ELSE URLSearchParams(request.text)
    IN  parse(IF Truthy(request.contentType) THEN request.contentType.v ELSE "")

tokenResponse(accessToken, refreshToken) ==
    jsonResponse([ kind |-> "token", access_token |-> accessToken,
                   token_type |-> "Bearer", refresh_token |-> refreshToken ], 200)

\* Mutant: a client_credentials request must name a client /register issued
clientCredentialsGrant_KnownClientsOnly(body) ==
    LET clientSecret == Get(body, "client_secret")
    IN  IF Get(body, "client_id") \notin {Str(pair[1]) : pair \in issued}
        THEN errorResponse("invalid_client", "Unknown client", 401)
        ELSE IF ~IsTruthy(clientSecret)
        THEN errorResponse("invalid_request", "client_secret is required", 400)
        ELSE tokenResponse(clientSecret, Undefined)

\* Mutant: a missing client_secret is reported as invalid_grant
clientCredentialsGrant_InvalidGrant(body) ==
    LET clientSecret == Get(body, "client_secret")
    IN  IF ~IsTruthy(clientSecret)
        THEN errorResponse("invalid_grant", "client_secret is required", 400)
        ELSE tokenResponse(clientSecret, Undefined)

\* handleToken, grant_type === "client_credentials"
clientCredentialsGrant(body) ==
    LET clientSecret == Get(body, "client_secret")
    IN  IF ~IsTruthy(clientSecret)
        THEN errorResponse("invalid_request", "client_secret is required", 400)
        ELSE tokenResponse(clientSecret, Undefined)

\* Mutant: the code is taken as the credential when it is present
authorizationCodeGrant_CodeCarriesPat(body) ==
    LET clientSecret == ValueOr(Get(body, "code"), Get(body, "client_secret"))
    IN  IF IsTruthy(clientSecret)
        THEN tokenResponse(clientSecret, Undefined)
        ELSE errorResponse("invalid_grant",
                           "client_secret is required for token exchange", 400)

\* handleToken, grant_type === "authorization_code"
authorizationCodeGrant(body) ==
    LET clientSecret == Get(body, "client_secret")
    IN  IF IsTruthy(clientSecret)
        THEN tokenResponse(clientSecret, Undefined)
        ELSE errorResponse("invalid_grant",
                           "client_secret is required for token exchange", 400)

\* Mutant: the refresh token is rotated on every use
refreshTokenGrant_Rotates(body) ==
    LET refreshToken == Get(body, "refresh_token")
    IN  IF IsTruthy(refreshToken)
        THEN tokenResponse(refreshToken, Str(StringOf(refreshToken) \o "'"))
        ELSE errorResponse("invalid_request", "refresh_token is required", 400)

\* handleToken, grant_type === "refresh_token"
refreshTokenGrant(body) ==
    LET refreshToken == Get(body, "refresh_token")
    IN  IF IsTruthy(refreshToken)
        THEN tokenResponse(refreshToken, refreshToken)
        ELSE errorResponse("invalid_request", "refresh_token is required", 400)

\* Mutant: the description does not name the rejected value
unsupportedGrant_StaticMessage(body) ==
    errorResponse("unsupported_grant_type", "Unsupported grant_type", 400)

\* handleToken, any other grant_type
unsupportedGrant(body) ==
    errorResponse("unsupported_grant_type",
                  "Unsupported grant_type: " \o StringOf(Get(body, "grant_type")), 400)

handleToken(request) ==
    LET grant(body, grantType) ==
            IF grantType = Str("client_credentials") THEN clientCredentialsGrant(body)
            ELSE IF grantType = Str("authorization_code") THEN authorizationCodeGrant(body)
            ELSE IF grantType = Str("refresh_token") THEN refreshTokenGrant(body)
            ELSE unsupportedGrant(body)
        token(body) ==
            IF ~IsTruthy(body)
            THEN errorResponse("invalid_request", "Invalid request body", 400)
            ELSE grant(body, Get(body, "grant_type"))
    IN  IF request.method # "POST"
        THEN errorResponse("invalid_request", "Method must be POST", 405)
        ELSE token(parseBody(request))

-----------------------------------------------------------------------------
(* Inputs of the OAuth routes *)

GrantTypes == {"client_credentials", "authorization_code", "refresh_token"}

\* Credentials pasted as client_secret or refresh_token; the second one holds
\* every character the two encodings treat specially.
Secrets == {"tA", "p&q= +%\"\\"}

\* Random bytes crypto.getRandomValues may produce (length n): two fillings
\* whose bytes lie on both sides of 16, so that one-digit and two-digit
\* hexadecimal bytes meet
ByteFills == {<<1, 16>>, <<17, 0>>}

RandomBytes(n) == { [i \in 1..n |-> fill[1 + ((i + 1) % 2)]] : fill \in ByteFills }

\* A client_id /register can hand out
IssuedClientId == generateId([i \in 1..16 |-> <<1, 16>>[1 + ((i + 1) % 2)]], 1, 16)

\* Date.now() readings, in milliseconds (small values: TLC integers are
\* 32 bits wide); the two fall into different seconds
Clock == {1000999, 1001000}

Sent(enc, g, cid, cs, code, rt) ==
    [ enc |-> enc, grant_type |-> g, client_id |-> cid, client_secret |-> cs,
      code |-> code, refresh_token |-> rt, replay |-> FALSE ]

OptSecrets == {None, Some("")} \cup {Some(x) : x \in Secrets}

\* The field combinations a client sends to /token
SentFields(enc) ==
    { Sent(enc, g, None, cs, None, None) :
        g \in {None, Some("nonsense"), Some("password")} \cup {Some(x) : x \in GrantTypes},
        cs \in OptSecrets }
    \cup
    { Sent(enc, Some(g), None, cs, None, rt) :
        g \in {"refresh_token", "client_credentials"},
        cs \in {None, Some("tA")},
        rt \in {Some("")} \cup {Some(x) : x \in Secrets} }
    \cup
    { Sent(enc, Some("authorization_code"), None, cs, Some(code), None) :
        cs \in OptSecrets, code \in {"c1", "c2"} }
    \cup
    { Sent(enc, Some("client_credentials"), Some(cid), Some("tA"), None, None) :
        cid \in {"never-registered", IssuedClientId} }
    \cup
    { Sent(enc, Some("refresh_token"), Some(cid), None, None, Some("tA")) :
        cid \in {"never-registered", IssuedClientId} }

Field(name, o) == IF o.some THEN << <<name, o.v>> >> ELSE <<>>

\* The present fields of a combination, in the order a client writes them
FieldSeq(f) ==
    Field("grant_type", f.grant_type) \o Field("client_id", f.client_id)
    \o Field("client_secret", f.client_secret) \o Field("code", f.code)
    \o Field("refresh_token", f.refresh_token)

BodyText(f) == IF f.enc = "form" THEN FormBody(FieldSeq(f), 1) ELSE JsonBody(FieldSeq(f))

ContentTypes ==
    {None, Some("application/x-www-form-urlencoded"), Some("application/json; charset=utf-8")}

\* Bodies that are not a flat object of strings
RawTokenTexts ==
    { "null", "5", "not json {", "",
      "{\"grant_type\":5}",
      "{\"grant_type\":\"client_credentials\",\"client_secret\":7}",
      "{\"grant_type\":[\"client_credentials\"],\"client_secret\":\"tA\"}" }

TokenRequests ==
    { Request("POST", "/token", None, ct, BodyText(f), NoCall, f) :
        ct \in ContentTypes, f \in SentFields("form") \cup SentFields("json") }
    \cup
    { Request("POST", "/token", None, ct, t, NoCall, NoFields) :
        ct \in ContentTypes, t \in RawTokenTexts }
    \cup
    { Request("GET", "/token", None, None, "", NoCall, NoFields) }

RegisterTexts ==
    { "{\"redirect_uris\":[\"https://x\"]}",
      "{\"redirect_uris\":[\"https://x\"],\"client_name\":\"App\",\"grant_types\":[\"client_credentials\"]}",
      "{\"redirect_uris\":[]}", "{\"redirect_uris\":\"https://x\"}", "{}",
      "null", "7", "not json {" }

RegisterRequests ==
    { Request("POST", "/register", None, Some("application/json"), t, NoCall, NoFields) :
        t \in RegisterTexts }
    \cup
    { Request("GET", "/register", None, None, "", NoCall, NoFields) }

StaticRequests ==
    { Request(m, p, None, None, "", NoCall, NoFields) :
        m \in {"GET"},
        p \in { "/.well-known/oauth-authorization-server",
                "/.well-known/oauth-protected-resource",
                "/.well-known/oauth-protected-resource/mcp",
                "/favicon.ico", "/favicon.svg", "/" } }
    \cup
    { Request("OPTIONS", p, None, None, "", NoCall, NoFields) : p \in {"/token", "/mcp"} }

OAuthRequests == TokenRequests \cup RegisterRequests \cup StaticRequests

\* The content type a client declares for the encoding it writes
DeclaredType(enc) ==
    IF enc = "form" THEN Some("application/x-www-form-urlencoded")
    ELSE Some("application/json; charset=utf-8")

\* The refresh request of a client that was handed refresh token rt by /token
RefreshRequest(enc, rt) ==
    LET f == [Sent(enc, Some("refresh_token"), None, None, None, Some(rt))
                 EXCEPT !.replay = TRUE]
    IN  Request("POST", "/token", None, DeclaredType(enc), BodyText(f), NoCall, f)

\* The refresh tokens /token can hand out for the requests of the model
HandedOut == Secrets \cup {x \o "'" : x \in Secrets}

RefreshRequests == {RefreshRequest(enc, rt) : enc \in {"form", "json"}, rt \in HandedOut}

\* The two handlers tabulated over the requests of the model, so that a
\* body is parsed once per request and not once per step (@@ makes TLC
\* compute the whole table when it first needs it).
tokenResponses == [r \in TokenRequests \cup RefreshRequests |-> handleToken(r)] @@ <<>>

registerResponses ==
    [ r \in RegisterRequests, b16 \in RandomBytes(16), b32 \in RandomBytes(32), now \in Clock |->
        handleRegister(r, b16, b32, now) ] @@ <<>>

-----------------------------------------------------------------------------
(* In-flight /mcp requests: one fresh server instance per request.         *)
(*   pc = "free"      the slot is unused                                   *)
(*   pc = "created"   createServer(pat) ran; the MCP message is pending    *)
(*   pc = "awaiting"  a tool handler awaits its upstream fetch             *)
(*   pc = "done"      the MCP response was produced                        *)

Conns == 1..MaxConns

Free ==
    [ pc |-> "free", authorization |-> None, call |-> NoCall, token |-> None,
      pat |-> None, out |-> <<>>, status |-> 0, text |-> "", isError |-> FALSE,
      error |-> None, result |-> None ]

createServer_SharedInstance(request, token, p) ==
    LET serving == {d \in DOMAIN conns : conns[d].pc # "free"}
    IN  [ pc |-> "created", authorization |-> request.authorization,
          call |-> request.call, token |-> token,
          pat |-> IF serving = {} THEN p ELSE conns[CHOOSE d \in serving : TRUE].pat,
          out |-> <<>>, status |-> 0, text |-> "", isError |-> FALSE,
          error |-> None, result |-> None ]

\* createServer(p): a server instance whose tool handlers close over p
createServer(request, token, p) ==
    [ pc |-> "created", authorization |-> request.authorization,
      call |-> request.call, token |-> token, pat |-> p, out |-> <<>>,
      status |-> 0, text |-> "", isError |-> FALSE, error |-> None, result |-> None ]

IsMcpPath(request) == request.pathname = "/mcp" \/ request.pathname = "/mcp/"

InfoPage ==
    Response(200, Some("text/plain"), None, None,
             TextBody("GitHub MCP Server\n\nConnect via /mcp"))

Preflight == Response(204, None, None, Some("*"), EmptyBody)

\* Mutant: error responses describe the configured default credential
Answer_ErrorsNameDefault(request, response) ==
    /\ lastReq' = request
    /\ lastResp' =
           IF response.body.kind = "error" /\ Truthy(GITHUB_PAT)
           THEN [response EXCEPT !.body.error_description = @ \o " (" \o GITHUB_PAT.v \o ")"]
           ELSE response

Answer(request, response) ==
    /\ lastReq' = request
    /\ lastResp' = response

\* Edge worker, fetch(): routes in source order.  For /mcp the value
\* resolveGitHubToken returned is kept in the slot as token.  issued and
\* nRegistered record what registration handed out; the worker keeps none
\* of it.
fetch(request) ==
    /\ IF request.method = "OPTIONS"
       THEN Answer(request, Preflight) /\ UNCHANGED <<conns, issued, nRegistered>>
       ELSE IF request.pathname = "/.well-known/oauth-authorization-server"
       THEN /\ Answer(request, handleMetadata(issuerUrl))
            /\ UNCHANGED <<conns, issued, nRegistered>>
       ELSE IF startsWith(request.pathname, "/.well-known/oauth-protected-resource")
       THEN /\ Answer(request, handleResourceMetadata(issuerUrl \o "/mcp", issuerUrl))
            /\ UNCHANGED <<conns, issued, nRegistered>>
       ELSE IF request.pathname = "/register"
       THEN /\ \E b16 \in RandomBytes(16), b32 \in RandomBytes(32), now \in Clock :
                 LET response == registerResponses[request, b16, b32, now]
                 IN  /\ Answer(request, response)
                     /\ IF response.status = 201
                        THEN /\ nRegistered < MaxRegistrations
                             /\ nRegistered' = nRegistered + 1
                             /\ issued' = issued \cup
                                    {<<response.body.client_id,
                                       response.body.client_secret, b16, b32>>}
                        ELSE UNCHANGED <<issued, nRegistered>>
            /\ UNCHANGED conns
       ELSE IF request.pathname = "/token"
       THEN /\ Answer(request, tokenResponses[request])
            /\ UNCHANGED <<conns, issued, nRegistered>>
       ELSE IF request.pathname = "/favicon.ico"
       THEN /\ Answer(request, Response(200, Some("image/x-icon"),
                                        Some("public, max-age=86400"), None,
                                        [kind |-> "bytes"]))
            /\ UNCHANGED <<conns, issued, nRegistered>>
       ELSE IF request.pathname = "/favicon.svg"
       THEN /\ Answer(request, Response(200, Some("image/svg+xml"),
                                        Some("public, max-age=86400"), None,
                                        [kind |-> "bytes"]))
            /\ UNCHANGED <<conns, issued, nRegistered>>
       ELSE IF IsMcpPath(request)
       THEN /\ \E c \in DOMAIN conns :
                 /\ conns[c].pc = "free"
                 /\ conns' = [conns EXCEPT ![c] =
                        createServer(request, resolveGitHubToken(request),
                                     resolvePat(request, GITHUB_PAT))]
            /\ UNCHANGED <<lastReq, lastResp, issued, nRegistered>>
       ELSE Answer(request, InfoPage) /\ UNCHANGED <<conns, issued, nRegistered>>
    /\ UNCHANGED config

\* Local process, the request listener of runHttp(): the server instance is
\* created with the startup credential; the request's headers are not read.
runHttp(request) ==
    /\ IF request.method = "OPTIONS"
       THEN Answer(request, Preflight) /\ UNCHANGED conns
       ELSE IF IsMcpPath(request)
       THEN /\ \E c \in DOMAIN conns :
                 /\ conns[c].pc = "free"
                 /\ conns' = [conns EXCEPT ![c] = createServer(request, None, pat)]
            /\ UNCHANGED <<lastReq, lastResp>>
       ELSE Answer(request, InfoPage) /\ UNCHANGED conns
    /\ UNCHANGED <<config, issued, nRegistered>>

\* The argument schemas handed to server.tool for list_issues and
\* list_pulls: per field its zod type, whether it is .optional(), and the
\* values of a z.enum
ZodField(name, type, optional, values) ==
    [name |-> name, type |-> type, optional |-> optional, values |-> values]

Schema(tool) ==
    CASE tool = "list_issues" ->
             << ZodField("owner", "string", FALSE, {}),
                ZodField("repo", "string", FALSE, {}),
                ZodField("state", "enum", TRUE, {"open", "closed", "all"}),
                ZodField("labels", "string", TRUE, {}),
                ZodField("per_page", "number", TRUE, {}) >>
      [] tool = "list_pulls" ->
             << ZodField("owner", "string", FALSE, {}),
                ZodField("repo", "string", FALSE, {}),
                ZodField("state", "enum", TRUE, {"open", "closed", "all"}),
                ZodField("per_page", "number", TRUE, {}) >>

\* Whether a field's zod type accepts a value: undefined passes only an
\* optional field, null passes none of these
Accepts_AnyStringAsEnum(field, v) ==
    IF v.t = "undefined" THEN field.optional
    ELSE CASE field.type = "string" -> v.t = "string"
           [] field.type = "number" -> v.t = "number"
           [] field.type = "enum"   -> v.t = "string"

Accepts(field, v) ==
    IF v.t = "undefined" THEN field.optional
    ELSE CASE field.type = "string" -> v.t = "string"
           [] field.type = "number" -> v.t = "number"
           [] field.type = "enum"   -> v.t = "string" /\ v.s \in field.values

\* The arguments as the handler receives them: .default("open") fills in an
\* absent state, an absent labels stays undefined, and the default of
\* per_page is PerPageArg's
HandlerArgs(call) ==
    LET arg(key) == Get(call.arguments, key)
        optional(v) == IF v.t = "undefined" THEN None ELSE Some(IF v.t = "number" THEN v.n ELSE v.s)
        state(v) == IF v.t = "undefined" THEN "open" ELSE v.s
    IN  IF call.tool = "list_issues"
        THEN [ tool |-> call.tool, arguments |-> call.arguments,
               owner |-> arg("owner").s, repo |-> arg("repo").s,
               state |-> state(arg("state")), labels |-> optional(arg("labels")),
               per_page |-> optional(arg("per_page")) ]
        ELSE [ tool |-> call.tool, arguments |-> call.arguments,
               owner |-> arg("owner").s, repo |-> arg("repo").s,
               state |-> state(arg("state")),
               per_page |-> optional(arg("per_page")) ]

\* The schema's check of a tools/call that carries its arguments as sent:
\* the handler's arguments, or the first field the schema rejects (the
\* empty name when the arguments are no object). A call of the model given
\* as the handler's arguments has passed the check.
safeParse(call) ==
    LET schema == Schema(call.tool)
        rejected == { i \in 1..Len(schema) :
                        ~Accepts(schema[i], Get(call.arguments, schema[i].name)) }
        first == CHOOSE i \in rejected : \A j \in rejected : i <= j
    IN  IF "arguments" \notin DOMAIN call THEN [success |-> TRUE, data |-> call]
        ELSE IF call.arguments.t # "object" THEN [success |-> FALSE, field |-> ""]
        ELSE IF rejected # {} THEN [success |-> FALSE, field |-> schema[first].name]
        ELSE [success |-> TRUE, data |-> HandlerArgs(call)]

\* The error of a tools/call whose arguments the schema rejects
InvalidParams(tool, field) == "Invalid arguments for tool " \o tool \o ": " \o field

\* The transport dispatches the MCP message: a tools/call runs the tool's
\* handler on the validated arguments, up to its `await fetch(...)`;
\* rejected arguments end the call with an error and the handler is not run;
\* any other message is answered without an upstream request.
Dispatch(c) ==
    /\ conns[c].pc = "created"
    /\ LET run(parsed) ==
               IF ~parsed.success
               THEN conns' = [conns EXCEPT
                        ![c].pc = "done",
                        ![c].isError = TRUE,
                        ![c].error = Some(InvalidParams(conns[c].call.tool, parsed.field))]
               ELSE conns' = [conns EXCEPT
                        ![c].pc = "awaiting",
                        ![c].call = parsed.data,
                        ![c].out = Append(@, ToolRequest(parsed.data, conns[c].pat))]
       IN  IF conns[c].call = NoCall
           THEN conns' = [conns EXCEPT ![c].pc = "done", ![c].status = 200]
           ELSE run(safeParse(conns[c].call))
    /\ UNCHANGED <<config, oauthVars>>

UpstreamStatuses == {200, 404}

\* Bodies the upstream sends: with a failure status an error document or
\* nothing, with 200 what the endpoint of the call returns
RepoTexts ==
    { "{\"full_name\":\"anthropics/courses\",\"description\":null,\"stargazers_count\":42,\"forks_count\":7,\"topics\":[\"ai\",\"docs\"],\"license\":{\"key\":\"mit\",\"name\":\"MIT License\"},\"private\":false}",
      "{\"id\":5,\"full_name\":\"a/b \\\"c\\\"\",\"stargazers_count\":0,\"license\":null}" }

IssueListTexts ==
    { "[]",
      "[{\"number\":1,\"title\":\"T1\",\"state\":\"open\",\"labels\":[{\"name\":\"bug\"}],\"user\":{\"login\":\"u1\"},\"created_at\":\"2024-01-01\",\"comments\":1},{\"number\":2,\"pull_request\":{\"url\":\"https://x/pulls/2\"}},{\"number\":3,\"title\":\"T3\",\"state\":\"open\",\"labels\":[{\"name\":\"bug\"}],\"user\":{\"login\":\"u3\"},\"created_at\":\"2024-01-03\",\"comments\":3,\"pull_request\":null},{\"number\":4,\"title\":\"T4\",\"state\":\"open\",\"labels\":[{\"name\":\"bug\"}],\"user\":{\"login\":\"u4\"},\"created_at\":\"2024-01-04\",\"comments\":4}]",
      "[{\"number\":9,\"title\":\"P\",\"pull_request\":{}}]",
      "{\"message\":\"Moved\"}" }

UpstreamTexts(call, status) ==
    IF status # 200 THEN {"{\"message\":\"Not Found\",\"status\":\"404\"}", ""}
    ELSE CASE call.tool = "get_repo" -> RepoTexts
           [] call.tool = "get_readme" -> {"# Courses"}
           [] call.tool = "list_issues" -> IssueListTexts
           [] call.tool \in {"search_repos", "search_code"} ->
                  { "{\"total_count\":1,\"items\":[{\"name\":\"a.py\",\"path\":\"src/a.py\",\"full_name\":\"o/r\",\"stargazers_count\":3,\"repository\":{\"full_name\":\"o/r\"},\"html_url\":\"https://x\"}]}" }
           [] call.tool = "list_commits" ->
                  { "[{\"sha\":\"0123456789abcdef\",\"commit\":{\"message\":\"Fix parser\",\"author\":{\"name\":\"Ann\",\"date\":\"2024-01-01\"}}}]" }
           [] call.tool = "get_issue_comments" ->
                  { "[{\"user\":{\"login\":\"u1\"},\"body\":\"hi\",\"created_at\":\"2024-01-01\"}]" }
           [] call.tool = "list_pulls" ->
                  { "[{\"number\":7,\"title\":\"P\",\"state\":\"open\",\"user\":{\"login\":\"u2\"},\"created_at\":\"2024-01-01\",\"draft\":false}]" }
           [] OTHER -> {}

\* res.ok
ok(status) == status >= 200 /\ status <= 299

\* Mutant: the message names the status and leaves the body out
ApiError_StatusOnly(status, text) == "GitHub API " \o NatToString(status)

\* `GitHub API ${res.status}: ${text}`
ApiError(status, text) == "GitHub API " \o NatToString(status) \o ": " \o text

-----------------------------------------------------------------------------
(* What a tool handler makes of the upstream data (server.ts) *)

\* The TypeError a property access on null or undefined, or a call of a
\* method the value does not have, throws
TypeError == Value("throw", "TypeError", 0, <<>>)

Threw(v) == v.t = "throw"

\* v.key
Prop(v, key) == IF v.t \in {"undefined", "null", "throw"} THEN TypeError ELSE Get(v, key)

\* v?.key
OptProp(v, key) ==
    IF Threw(v) THEN TypeError
    ELSE IF v.t \in {"undefined", "null"} THEN Undefined
    ELSE Get(v, key)

\* { key: expression, ... }: throws when one of its expressions throws
Literal(entries) ==
    IF \E i \in 1..Len(entries) : Threw(entries[i][2]) THEN TypeError ELSE Obj(entries)

\* The array map() returns for the mapped elements, unless a callback threw
Mapped(items) ==
    IF \E i \in 1..Len(items) : Threw(items[i]) THEN TypeError ELSE Arr(items)

\* labels.map((l) => l.name)
LabelNames(labels) ==
    IF labels.t # "array" THEN TypeError
    ELSE Mapped([i \in 1..Len(labels.items) |-> Prop(labels.items[i], "name")])

\* s.substring(0, n)
substring(v, n) == IF v.t # "string" THEN TypeError ELSE Str(Sub(v.s, 1, n))

\* s.split("\n")[0]
FirstLine(v) ==
    IF v.t # "string" THEN TypeError
    ELSE IF IndexFrom(v.s, "\n", 1) = 0 THEN v
    ELSE Str(Sub(v.s, 1, IndexFrom(v.s, "\n", 1) - 1))

Spaces(n) == SubSeq("                ", 1, n)

\* JSON.stringify(v, null, 2), at nesting depth `depth`: properties whose
\* value is undefined are left out, undefined array elements become null
RECURSIVE Stringify(_, _)
RECURSIVE StringifyItems(_, _, _, _)
Stringify(v, depth) ==
    LET block(open, close, items, isObject) ==
            IF Len(items) = 0 THEN open \o close
            ELSE open \o "\n" \o StringifyItems(items, 1, depth + 1, isObject)
                 \o "\n" \o Spaces(2 * depth) \o close
    IN  CASE v.t = "string"  -> "\"" \o JsonQuote(v.s, 1, Len(v.s)) \o "\""
          [] v.t = "number"  -> NumberToString(v.n)
          [] v.t = "boolean" -> IF v.n = 1 THEN "true" ELSE "false"
          [] v.t = "array"   -> block("[", "]", v.items, FALSE)
          [] v.t = "object"  ->
                 block("{", "}", SelectSeq(v.items, LAMBDA e : e[2].t # "undefined"), TRUE)
          [] OTHER           -> "null"

StringifyItems(items, i, depth, isObject) ==
    IF i > Len(items) THEN ""
    ELSE Spaces(2 * depth)
         \o (IF isObject
             THEN "\"" \o JsonQuote(items[i][1], 1, Len(items[i][1])) \o "\": "
                  \o Stringify(items[i][2], depth)
             ELSE Stringify(items[i], depth))
         \o (IF i < Len(items) THEN ",\n" ELSE "")
         \o StringifyItems(items, i + 1, depth, isObject)

JSONstringify(v) == Stringify(v, 0)

\* search_repos: data.items.map(...)
search_repos_results(data) ==
    LET result(r) ==
            Literal(<< <<"name", Prop(r, "full_name")>>,
                       <<"description", Prop(r, "description")>>,
                       <<"stars", Prop(r, "stargazers_count")>>,
                       <<"language", Prop(r, "language")>>,
                       <<"url", Prop(r, "html_url")>>,
                       <<"updated", Prop(r, "updated_at")>> >>)
        map(items) ==
            IF items.t # "array" THEN TypeError
            ELSE Mapped([i \in 1..Len(items.items) |-> result(items.items[i])])
    IN  map(Prop(data, "items"))

search_code_results(data) ==
    LET result(r) ==
            Literal(<< <<"file", Prop(r, "name")>>,
                       <<"path", Prop(r, "path")>>,
                       <<"repo", Prop(Prop(r, "repository"), "full_name")>>,
                       <<"url", Prop(r, "html_url")>> >>)
        map(items) ==
            IF items.t # "array" THEN TypeError
            ELSE Mapped([i \in 1..Len(items.items) |-> result(items.items[i])])
    IN  map(Prop(data, "items"))

get_repo_info_ForksAsStars(data) ==
    Literal(<< <<"name", Prop(data, "full_name")>>,
               <<"description", Prop(data, "description")>>,
               <<"stars", Prop(data, "forks_count")>>,
               <<"forks", Prop(data, "forks_count")>>,
               <<"language", Prop(data, "language")>>,
               <<"topics", Prop(data, "topics")>>,
               <<"default_branch", Prop(data, "default_branch")>>,
               <<"created", Prop(data, "created_at")>>,
               <<"updated", Prop(data, "updated_at")>>,
               <<"license", OptProp(Prop(data, "license"), "name")>>,
               <<"url", Prop(data, "html_url")>> >>)

get_repo_info(data) ==
    Literal(<< <<"name", Prop(data, "full_name")>>,
               <<"description", Prop(data, "description")>>,
               <<"stars", Prop(data, "stargazers_count")>>,
               <<"forks", Prop(data, "forks_count")>>,
               <<"language", Prop(data, "language")>>,
               <<"topics", Prop(data, "topics")>>,
               <<"default_branch", Prop(data, "default_branch")>>,
               <<"created", Prop(data, "created_at")>>,
               <<"updated", Prop(data, "updated_at")>>,
               <<"license", OptProp(Prop(data, "license"), "name")>>,
               <<"url", Prop(data, "html_url")>> >>)

list_commits_commits(data) ==
    LET commit(c) ==
            Literal(<< <<"sha", substring(Prop(c, "sha"), 7)>>,
                       <<"message", FirstLine(Prop(Prop(c, "commit"), "message"))>>,
                       <<"author", Prop(Prop(Prop(c, "commit"), "author"), "name")>>,
                       <<"date", Prop(Prop(Prop(c, "commit"), "author"), "date")>> >>)
    IN  IF data.t # "array" THEN TypeError
        ELSE Mapped([i \in 1..Len(data.items) |-> commit(data.items[i])])

\* Mutant: the filter keeps the entries that are pull requests
list_issues_issues_KeepsPulls(data) ==
    LET issue(i) == Literal(<< <<"number", Prop(i, "number")>>, <<"title", Prop(i, "title")>> >>)
        map(kept) == Mapped([i \in 1..Len(kept) |-> issue(kept[i])])
    IN  IF data.t # "array" THEN TypeError
        ELSE map(SelectSeq(data.items, LAMBDA i : IsTruthy(Get(i, "pull_request"))))

\* list_issues: data.filter((i) => !i.pull_request).map(...)
list_issues_issues(data) ==
    LET issue(i) ==
            Literal(<< <<"number", Prop(i, "number")>>,
                       <<"title", Prop(i, "title")>>,
                       <<"state", Prop(i, "state")>>,
                       <<"labels", LabelNames(Prop(i, "labels"))>>,
                       <<"author", Prop(Prop(i, "user"), "login")>>,
                       <<"created", Prop(i, "created_at")>>,
                       <<"comments", Prop(i, "comments")>> >>)
        map(kept) == Mapped([i \in 1..Len(kept) |-> issue(kept[i])])
    IN  IF data.t # "array" THEN TypeError
        ELSE IF \E i \in 1..Len(data.items) : data.items[i].t \in {"null", "undefined"}
        THEN TypeError
        ELSE map(SelectSeq(data.items, LAMBDA i : ~IsTruthy(Get(i, "pull_request"))))

get_issue_comments_comments(data) ==
    LET comment(c) ==
            Literal(<< <<"author", Prop(Prop(c, "user"), "login")>>,
                       <<"body", Prop(c, "body")>>,
                       <<"created", Prop(c, "created_at")>> >>)
    IN  IF data.t # "array" THEN TypeError
        ELSE Mapped([i \in 1..Len(data.items) |-> comment(data.items[i])])

list_pulls_pulls(data) ==
    LET pull(q) ==
            Literal(<< <<"number", Prop(q, "number")>>,
                       <<"title", Prop(q, "title")>>,
                       <<"state", Prop(q, "state")>>,
                       <<"author", Prop(Prop(q, "user"), "login")>>,
                       <<"created", Prop(q, "created_at")>>,
                       <<"draft", Prop(q, "draft")>> >>)
    IN  IF data.t # "array" THEN TypeError
        ELSE Mapped([i \in 1..Len(data.items) |-> pull(data.items[i])])

\* The value a JSON tool's handler builds from the parsed upstream data
Reshaped(tool, data) ==
    CASE tool = "get_repo" -> get_repo_info(data)
      [] tool = "search_repos" -> search_repos_results(data)
      [] tool = "search_code" -> search_code_results(data)
      [] tool = "list_commits" -> list_commits_commits(data)
      [] tool = "list_issues" -> list_issues_issues(data)
      [] tool = "get_issue_comments" -> get_issue_comments_comments(data)
      [] tool = "list_pulls" -> list_pulls_pulls(data)

\* How a tool call ends once the upstream has answered with status and
\* text: an error with its message (the name of the exception for one the
\* runtime words), or the text the handler returns as its content.
ToolOutcome(tool, status, text) ==
    LET failed(message) == [isError |-> TRUE, error |-> Some(message), result |-> None]
        returned(content) == [isError |-> FALSE, error |-> None, result |-> Some(content)]
        reshaped(v) == IF Threw(v) THEN failed("TypeError") ELSE returned(JSONstringify(v))
        json(parsed) ==
            IF ~parsed.ok THEN failed("SyntaxError") ELSE reshaped(Reshaped(tool, parsed.v))
    IN  IF ~ok(status) THEN failed(ApiError(status, text))
        ELSE IF tool = "get_readme" THEN returned(text)
        ELSE json(JSONparse(text))

Tools ==
    {"get_repo", "get_readme", "search_repos", "search_code", "list_commits",
     "list_issues", "get_issue_comments", "list_pulls"}

\* ToolOutcome tabulated over the answers of the model, so that a body is
\* parsed once and not once per step
toolOutcomes ==
    [ x \in UNION { {<<t, st, text>> : text \in UpstreamTexts([tool |-> t], st)} :
                        t \in Tools, st \in UpstreamStatuses } |->
        ToolOutcome(x[1], x[2], x[3]) ] @@ <<>>

UpstreamReply_RetriesWithDefault(c, status, text) ==
    /\ conns[c].pc = "awaiting"
    /\ LET end(outcome) ==
               conns' = [conns EXCEPT
                   ![c].pc = "done", ![c].status = status, ![c].text = text,
                   ![c].isError = outcome.isError, ![c].error = outcome.error,
                   ![c].result = outcome.result]
       IN  IF ~ok(status) /\ Len(conns[c].out) = 1
           THEN conns' = [conns EXCEPT
                    ![c].out = Append(@, ToolRequest(conns[c].call, GITHUB_PAT))]
           ELSE end(toolOutcomes[<<conns[c].call.tool, status, text>>])
    /\ UNCHANGED <<config, oauthVars>>

\* The upstream answers with a status and a body (status and text record
\* them): `if (!res.ok) throw new Error(...)` fails the tool call with that
\* message, else the handler reshapes the data and returns its result.
UpstreamReply(c, status, text) ==
    /\ conns[c].pc = "awaiting"
    /\ LET end(outcome) ==
               conns' = [conns EXCEPT
                   ![c].pc = "done", ![c].status = status, ![c].text = text,
                   ![c].isError = outcome.isError, ![c].error = outcome.error,
                   ![c].result = outcome.result]
       IN  end(toolOutcomes[<<conns[c].call.tool, status, text>>])
    /\ UNCHANGED <<config, oauthVars>>

\* The response is sent and the per-request server instance is dropped.
Close(c) ==
    /\ conns[c].pc = "done"
    /\ conns' = [conns EXCEPT ![c] = Free]
    /\ UNCHANGED <<config, oauthVars>>

-----------------------------------------------------------------------------
(* Specification of the /mcp traffic of one process, edge or local *)

deployment == IF argv = <<"<edge>">> THEN "edge" ELSE "local"

InitCommon ==
    /\ conns = [c \in Conns |-> Free]
    /\ lastReq = NoRequest
    /\ lastResp = NoResponse
    /\ issued = {}
    /\ nRegistered = 0

InitEdge ==
    /\ GITHUB_PAT \in DefaultPats
    /\ argv = <<"<edge>">>
    /\ processEnv = None
    /\ pat = None

InitLocal ==
    /\ GITHUB_PAT = None
    /\ argv \in ArgvSet
    /\ processEnv \in ProcessEnvPats
    /\ pat = StartupPat(argv, processEnv)

Init == InitCommon /\ (InitEdge \/ InitLocal)

EdgeRequest == deployment = "edge" /\ \E r \in McpRequests : fetch(r)

LocalRequest == deployment = "local" /\ \E r \in McpRequests : runHttp(r)

DispatchStep == \E c \in DOMAIN conns : Dispatch(c)

UpstreamStep ==
    \E c \in DOMAIN conns, st \in UpstreamStatuses :
        \E text \in UpstreamTexts(conns[c].call, st) : UpstreamReply(c, st, text)

CloseStep == \E c \in DOMAIN conns : Close(c)

Next == EdgeRequest \/ LocalRequest \/ DispatchStep \/ UpstreamStep \/ CloseStep

Spec == Init /\ [][Next]_vars

-----------------------------------------------------------------------------
(* Specification of the paginated tools: tools/call requests to the local  *)
(* process, whose server instances all hold the startup credential         *)

\* tools/call bodies with their arguments as the client sent them
RawArguments ==
    { Obj(<< <<"owner", Str("anthropics")>>, <<"repo", Str("courses")>> >>),
      Obj(<< <<"owner", Str("anthropics")>>, <<"repo", Str("courses")>>,
             <<"state", Str("closed")>>, <<"per_page", Num(31)>> >>),
      Obj(<< <<"owner", Str("anthropics")>>, <<"repo", Str("courses")>>,
             <<"state", Str("merged")>> >>),
      Obj(<< <<"owner", Str("anthropics")>>, <<"repo", Str("courses")>>,
             <<"state", Str("OPEN")>> >>),
      Obj(<< <<"owner", Str("anthropics")>>, <<"repo", Str("courses")>>,
             <<"state", Null>> >>),
      Obj(<< <<"owner", Str("anthropics")>>, <<"repo", Str("courses")>>,
             <<"per_page", Str("100")>> >>),
      Obj(<< <<"repo", Str("courses")>>, <<"state", Str("all")>> >>),
      Obj(<< <<"owner", Num(7)>>, <<"repo", Str("courses")>> >>),
      Obj(<< <<"owner", Str("anthropics")>>, <<"repo", Bool(TRUE)>>,
             <<"state", Str("nope")>> >>),
      Undefined }

RawCalls ==
    { [tool |-> t, arguments |-> a] : t \in {"list_issues", "list_pulls"}, a \in RawArguments }
    \cup
    { [tool |-> "list_issues",
       arguments |-> Obj(<< <<"owner", Str("anthropics")>>, <<"repo", Str("courses")>>,
                            <<"labels", l>> >>)] : l \in {Str("bug"), Num(1), Null} }

PagedRequests ==
    { Request("POST", "/mcp", None, Some("application/json"), "", c, NoFields) :
        c \in PagedCalls \cup RawCalls }

InitTools ==
    /\ InitCommon
    /\ GITHUB_PAT = None
    /\ argv = <<>>
    /\ processEnv \in {None, Some("tE")}
    /\ pat = StartupPat(argv, processEnv)

PagedRequest == \E r \in PagedRequests : runHttp(r)

NextTools == PagedRequest \/ DispatchStep \/ UpstreamStep \/ CloseStep

SpecTools == InitTools /\ [][NextTools]_vars

-----------------------------------------------------------------------------
(* Specification of concurrent /mcp requests: one more connection than     *)
(* MaxConns, so that two requests are served at the same time              *)

ConcurrentConns == 1..(MaxConns + 1)

ConcurrentRequests ==
    { Request("POST", "/mcp", a, Some("application/json"), "",
              [tool |-> "get_readme", owner |-> o, repo |-> r], NoFields) :
        a \in {None, Some("Bearer tA"), Some("Bearer  t B")}, o \in Owners, r \in Repos }

InitConcurrent ==
    /\ conns = [c \in ConcurrentConns |-> Free]
    /\ lastReq = NoRequest
    /\ lastResp = NoResponse
    /\ issued = {}
    /\ nRegistered = 0
    /\ InitEdge \/ InitLocal

ConcurrentEdgeRequest == deployment = "edge" /\ \E r \in ConcurrentRequests : fetch(r)

ConcurrentLocalRequest == deployment = "local" /\ \E r \in ConcurrentRequests : runHttp(r)

NextConcurrent ==
    ConcurrentEdgeRequest \/ ConcurrentLocalRequest \/ DispatchStep \/ UpstreamStep \/ CloseStep

SpecConcurrent == InitConcurrent /\ [][NextConcurrent]_vars

-----------------------------------------------------------------------------
(* The McpAgent variant (index.ts): one agent class whose tool handlers    *)
(* read this.env.GITHUB_PAT when they run                                  *)

\* `Bearer ${pat}`: the template literal writes an undefined pat as the
\* word undefined
BearerTemplate(p) == "Bearer " \o (IF p.some THEN p.v ELSE "undefined")

\* githubFetch of index.ts: the Authorization header is always set
indexGithubFetch(path, p) ==
    [ url           |-> "https://api.github.com" \o path,
      accept        |-> "application/vnd.github.v3+json",
      userAgent     |-> "github-mcp-worker",
      authorization |-> Some(BearerTemplate(p)) ]

indexGithubRawFetch(path, p) ==
    [ url           |-> "https://api.github.com" \o path,
      accept        |-> "application/vnd.github.v3.raw",
      userAgent     |-> "github-mcp-worker",
      authorization |-> Some(BearerTemplate(p)) ]

\* per_page: z.number().optional().default(15) of index.ts
indexPerPageArg(call) == IF call.per_page.some THEN call.per_page.v ELSE 15

\* sort: z.enum(["created", "updated", "comments"]).optional().default("created")
indexSortArg(call) == IF call.sort.some THEN call.sort.v ELSE "created"

\* list_issues of index.ts: the request it issues
indexListIssues(call, p) ==
    indexGithubFetch("/repos/" \o call.owner \o "/" \o call.repo \o "/issues?state="
                         \o call.state \o "&sort=" \o indexSortArg(call) \o "&per_page="
                         \o NumberToString(MathMin(indexPerPageArg(call), 30))
                         \o (IF Truthy(call.labels)
                             THEN "&labels="
                                      \o encodeURIComponent(call.labels.v, 1, Len(call.labels.v))
                             ELSE ""), p)

\* The outbound request a tool handler of GitHubMCP issues for a call
indexToolRequest(call, p) ==
    CASE call.tool = "get_repo" ->
             indexGithubFetch("/repos/" \o call.owner \o "/" \o call.repo, p)
      [] call.tool = "get_readme" ->
             indexGithubRawFetch("/repos/" \o call.owner \o "/" \o call.repo \o "/readme", p)
      [] call.tool = "list_issues" -> indexListIssues(call, p)

\* list_issues of index.ts: what it returns for the upstream data
indexListIssuesIssues(data) ==
    LET issue(i) ==
            Literal(<< <<"number", Prop(i, "number")>>,
                       <<"title", Prop(i, "title")>>,
                       <<"state", Prop(i, "state")>>,
                       <<"author", Prop(Prop(i, "user"), "login")>>,
                       <<"labels", LabelNames(Prop(i, "labels"))>>,
                       <<"comments", Prop(i, "comments")>>,
                       <<"created", Prop(i, "created_at")>>,
                       <<"updated", Prop(i, "updated_at")>>,
                       <<"url", Prop(i, "html_url")>> >>)
        map(kept) == Mapped([i \in 1..Len(kept) |-> issue(kept[i])])
    IN  IF data.t # "array" THEN TypeError
        ELSE IF \E i \in 1..Len(data.items) : data.items[i].t \in {"null", "undefined"}
        THEN TypeError
        ELSE map(SelectSeq(data.items, LAMBDA i : ~IsTruthy(Get(i, "pull_request"))))

\* How a tool call of GitHubMCP ends: get_repo and get_readme are the
\* handlers of createServer word for word, list_issues reshapes differently
indexToolOutcome(tool, status, text) ==
    LET failed(message) == [isError |-> TRUE, error |-> Some(message), result |-> None]
        returned(content) == [isError |-> FALSE, error |-> None, result |-> Some(content)]
        reshaped(v) == IF Threw(v) THEN failed("TypeError") ELSE returned(JSONstringify(v))
        json(parsed) ==
            IF ~parsed.ok THEN failed("SyntaxError") ELSE reshaped(indexListIssuesIssues(parsed.v))
    IN  IF tool = "list_issues" /\ ok(status) THEN json(JSONparse(text))
        ELSE ToolOutcome(tool, status, text)

indexToolOutcomes ==
    [ x \in UNION { {<<t, st, text>> : text \in UpstreamTexts([tool |-> t], st)} :
                        t \in {"get_repo", "get_readme", "list_issues"},
                        st \in UpstreamStatuses } |->
        indexToolOutcome(x[1], x[2], x[3]) ] @@ <<>>

\* The upstream answers a request of a GitHubMCP handler
indexUpstreamReply(c, status, text) ==
    /\ conns[c].pc = "awaiting"
    /\ LET end(outcome) ==
               conns' = [conns EXCEPT
                   ![c].pc = "done", ![c].status = status, ![c].text = text,
                   ![c].isError = outcome.isError, ![c].error = outcome.error,
                   ![c].result = outcome.result]
       IN  end(indexToolOutcomes[<<conns[c].call.tool, status, text>>])
    /\ UNCHANGED <<config, oauthVars>>

\* The tool names registered by createServer and by GitHubMCP.init
ToolNames ==
    {"search_repos", "search_code", "get_repo", "list_contents", "read_file", "get_readme",
     "list_commits", "get_tree", "list_issues", "get_issue", "get_issue_comments",
     "list_pulls", "get_pull", "get_pull_files"}

indexToolNames ==
    {"search_repos", "search_code", "get_repo", "list_contents", "read_file", "get_readme",
     "list_commits", "list_issues", "get_issue", "get_issue_comments", "list_pulls",
     "get_pull", "get_pull_files", "get_tree"}

\* list_issues calls sent to the agent, optional arguments omitted or given
AgentListCalls ==
    { [tool |-> "list_issues", owner |-> o, repo |-> r, state |-> "open", labels |-> None,
       sort |-> st, per_page |-> n] :
        o \in Owners, r \in Repos, st \in {None, Some("updated")}, n \in {None, Some(5)} }

AgentRequests ==
    McpRequests \cup
    { Request("POST", "/mcp", None, Some("application/json"), "", c, NoFields) :
        c \in AgentListCalls }

\* fetch of index.ts: /mcp goes to GitHubMCP.serveFromRequest, anything
\* else (any method) gets the info page; the request's headers are not read.
indexFetch(request) ==
    /\ IF IsMcpPath(request)
       THEN /\ \E c \in DOMAIN conns :
                 /\ conns[c].pc = "free"
                 /\ conns' = [conns EXCEPT ![c] = createServer(request, None, GITHUB_PAT)]
            /\ UNCHANGED <<lastReq, lastResp>>
       ELSE /\ Answer(request,
                      Response(200, Some("text/plain"), None, None,
                               TextBody("GitHub MCP Server \\u{1F419}\n\nConnect via /mcp")))
            /\ UNCHANGED conns
    /\ UNCHANGED <<config, issued, nRegistered>>

indexDispatch(c) ==
    /\ conns[c].pc = "created"
    /\ IF conns[c].call = NoCall
       THEN conns' = [conns EXCEPT ![c].pc = "done", ![c].status = 200]
       ELSE conns' = [conns EXCEPT
                ![c].pc = "awaiting",
                ![c].out = Append(@, indexToolRequest(conns[c].call, conns[c].pat))]
    /\ UNCHANGED <<config, oauthVars>>

InitAgent ==
    /\ InitCommon
    /\ GITHUB_PAT \in DefaultPats
    /\ argv = <<"<agent>">>
    /\ processEnv = None
    /\ pat = None

AgentRequest == \E r \in AgentRequests : indexFetch(r)

AgentDispatchStep == \E c \in DOMAIN conns : indexDispatch(c)

AgentUpstreamStep ==
    \E c \in DOMAIN conns, st \in UpstreamStatuses :
        \E text \in UpstreamTexts(conns[c].call, st) : indexUpstreamReply(c, st, text)

NextAgent == AgentRequest \/ AgentDispatchStep \/ AgentUpstreamStep \/ CloseStep

SpecAgent == InitAgent /\ [][NextAgent]_vars

-----------------------------------------------------------------------------
(* Specification of the OAuth routes of the edge worker *)

InitOAuth ==
    /\ InitCommon
    /\ GITHUB_PAT \in {None, Some("tD")}
    /\ argv = <<"<edge>">>
    /\ processEnv = None
    /\ pat = None

OAuthRequest == \E r \in OAuthRequests : fetch(r)

\* A client uses the refresh token the last token response handed it
RefreshAgain ==
    /\ lastResp.body.kind = "token"
    /\ lastResp.body.refresh_token.t = "string"
    /\ \E enc \in {"form", "json"} :
           fetch(RefreshRequest(enc, lastResp.body.refresh_token.s))

NextOAuth == OAuthRequest \/ RefreshAgain

SpecOAuth == InitOAuth /\ [][NextOAuth]_vars

-----------------------------------------------------------------------------
(* Claims about credential resolution, checked under Spec *)

InFlight == {c \in DOMAIN conns : conns[c].pc # "free"}

Bearer(credential) == Some("Bearer " \o credential)

\* The Authorization header an outbound request must carry for credential o
Authorizes(o) == IF Truthy(o) THEN Bearer(o.v) ELSE None

\* C1: for every credential C, a request whose Authorization header is
\* "Bearer " followed by C resolves to exactly C (leading and interior spaces
\* kept, no further parsing), and a request without the header resolves to
\* "absent" instead of failing.
C1_ResolverReturnsTokenVerbatim ==
    \A c \in InFlight :
        deployment = "edge" =>
            /\ \A cred \in Creds :
                   conns[c].authorization = Bearer(cred) => conns[c].token = Some(cred)
            /\ conns[c].authorization = None => conns[c].token = None

C1_Witness ==
    \E c \in InFlight :
        /\ deployment = "edge"
        /\ conns[c].authorization = Some("Bearer  t B")
        /\ conns[c].token = Some(" t B")

\* C2: edge deployment, /mcp request with "Authorization: Bearer C", C not
\* empty: the server instance is bound to C and every outbound GitHub request
\* made for it carries "Bearer C"; the default GITHUB_PAT, configured or not,
\* is not what is sent.
C2_EdgeBearerAuthorizesOutbound ==
    \A c \in InFlight :
        deployment = "edge" =>
            \A cred \in Creds :
                conns[c].authorization = Bearer(cred) =>
                    /\ conns[c].pat = Some(cred)
                    /\ \A i \in 1..Len(conns[c].out) :
                           /\ conns[c].out[i].authorization = Bearer(cred)
                           /\ (GITHUB_PAT.some /\ GITHUB_PAT.v # cred)
                                  => conns[c].out[i].authorization # Bearer(GITHUB_PAT.v)

C2_Witness ==
    \E c \in InFlight :
        /\ deployment = "edge"
        /\ GITHUB_PAT = Some("tD")
        /\ conns[c].authorization = Bearer("tA")
        /\ Len(conns[c].out) = 1
        /\ conns[c].out[1].authorization = Bearer("tA")

\* The value after the first "--github-pat" on the command line, if any
FlagValue ==
    LET at == {i \in 1..Len(argv) : argv[i] = "--github-pat"}
    IN  IF at = {} THEN None
        ELSE LET first == CHOOSE i \in at : \A j \in at : i <= j
             IN  IF first = Len(argv) THEN None ELSE Some(argv[first + 1])

\* The credential configured at process start: the flag value, else the
\* GITHUB_PAT environment value, else none
ConfiguredAtStart ==
    IF Truthy(FlagValue) THEN FlagValue ELSE IF Truthy(processEnv) THEN processEnv ELSE None

\* C3: a /mcp request without an Authorization header: the edge deployment
\* authorizes the outbound request with the default credential, or sends no
\* Authorization header when none is configured; the local deployment sends
\* none unless a credential was configured at process start (flag value,
\* else environment value); the request is served in both.
C3_NoHeaderFallsBackToDefault ==
    \A c \in InFlight :
        conns[c].authorization = None =>
            /\ conns[c].token = None
            /\ \A i \in 1..Len(conns[c].out) :
                   conns[c].out[i].authorization =
                       IF deployment = "edge" THEN Authorizes(GITHUB_PAT)
                       ELSE Authorizes(ConfiguredAtStart)
            /\ (conns[c].pc = "done" /\ conns[c].isError) => conns[c].status # 200

C3_Witness ==
    \E c \in InFlight :
        /\ conns[c].authorization = None
        /\ conns[c].pc = "done"
        /\ conns[c].status = 200
        /\ Len(conns[c].out) = 1
        /\ conns[c].out[1].authorization = None
        /\ ~Truthy(IF deployment = "edge" THEN GITHUB_PAT ELSE ConfiguredAtStart)

\* C4: in the local HTTP deployment a /mcp request carrying
\* "Authorization: Bearer C" has its outbound request authorized with C.
C4_LocalBearerAuthorizesOutbound ==
    \A c \in InFlight :
        deployment = "local" =>
            \A cred \in Creds :
                conns[c].authorization = Bearer(cred) =>
                    \A i \in 1..Len(conns[c].out) :
                        conns[c].out[i].authorization = Bearer(cred)

-----------------------------------------------------------------------------
(* Claims about the token endpoint, checked under SpecOAuth.  They speak   *)
(* of the fields the client sent, for the requests whose body is decoded   *)
(* in the encoding it was written in: a form body with the form content    *)
(* type or none, a JSON body with the JSON content type.                   *)

IsTokenPost(r) == r.method = "POST" /\ r.pathname = "/token"

DecodedAsSent(r) ==
    \/ r.sent.enc = "form" /\ r.contentType \in {None, DeclaredType("form")}
    \/ r.sent.enc = "json" /\ r.contentType = DeclaredType("json")

TokenExchange == IsTokenPost(lastReq) /\ DecodedAsSent(lastReq)

Granted(resp) ==
    /\ resp.status = 200
    /\ resp.body.kind = "token"
    /\ resp.body.token_type = "Bearer"

Refused(resp, error) ==
    /\ resp.status = 400
    /\ resp.body.kind = "error"
    /\ resp.body.error = error

\* C5: for every non-empty secret S, a token request that presents S as the
\* client_secret of a client_credentials or authorization_code grant, or as
\* the refresh_token of a refresh_token grant, is answered 200 with
\* token_type "Bearer" and access_token equal to S character for character.
C5_TokenIsThePresentedSecret ==
    \A S \in Secrets :
        LET f == lastReq.sent
        IN  ( /\ TokenExchange
              /\ \/ /\ f.grant_type \in {Some("client_credentials"), Some("authorization_code")}
                    /\ f.client_secret = Some(S)
                 \/ /\ f.grant_type = Some("refresh_token")
                    /\ f.refresh_token = Some(S) )
            => /\ Granted(lastResp)
               /\ lastResp.body.access_token = Str(S)

C5_Witness ==
    /\ TokenExchange
    /\ lastReq.sent.enc = "form"
    /\ lastReq.sent.grant_type = Some("authorization_code")
    /\ lastReq.sent.client_secret = Some("p&q= +%\"\\")
    /\ Granted(lastResp)
    /\ lastResp.body.access_token = Str("p&q= +%\"\\")

\* What a token request is answered with, from grant_type, client_secret and
\* refresh_token alone
Outcome(f) ==
    LET grant(o) == [status |-> 200, error |-> None, access_token |-> o]
        refuse(e) == [status |-> 400, error |-> Some(e), access_token |-> None]
    IN  IF f.grant_type = Some("client_credentials")
        THEN IF Truthy(f.client_secret) THEN grant(f.client_secret)
             ELSE refuse("invalid_request")
        ELSE IF f.grant_type = Some("authorization_code")
        THEN IF Truthy(f.client_secret) THEN grant(f.client_secret)
             ELSE refuse("invalid_grant")
        ELSE IF f.grant_type = Some("refresh_token")
        THEN IF Truthy(f.refresh_token) THEN grant(f.refresh_token)
             ELSE refuse("invalid_request")
        ELSE refuse("unsupported_grant_type")

Observed(resp) ==
    [ status |-> resp.status,
      error |-> IF resp.body.kind = "error" THEN Some(resp.body.error) ELSE None,
      access_token |->
          IF resp.body.kind = "token" /\ resp.body.access_token.t = "string"
          THEN Some(resp.body.access_token.s) ELSE None ]

\* C6: the answer to a token request is fixed by its grant_type,
\* client_secret and refresh_token: it is the same before any registration
\* and after some, with no client_id, with a client_id /register issued and
\* with one it never issued.
C6_TokenIgnoresRegistrations ==
    TokenExchange => Observed(lastResp) = Outcome(lastReq.sent)

C6_Witness ==
    /\ TokenExchange
    /\ nRegistered > 0
    /\ lastReq.sent.client_id = Some("never-registered")
    /\ lastReq.sent.grant_type = Some("client_credentials")
    /\ \A pair \in issued : pair[1] # "never-registered"
    /\ Granted(lastResp)

\* C7: a token request whose grant_type is none of client_credentials,
\* authorization_code, refresh_token (or is missing) is answered 400 with
\* error "unsupported_grant_type" and no access token; a grant_type that was
\* sent appears literally in the error description.
C7_UnsupportedGrantType ==
    LET g == lastReq.sent.grant_type
    IN  (TokenExchange /\ g \notin {Some(x) : x \in GrantTypes})
        => /\ Refused(lastResp, "unsupported_grant_type")
           /\ g.some => includes(lastResp.body.error_description, g.v)

C7_Witness ==
    /\ TokenExchange
    /\ lastReq.sent.grant_type = Some("password")
    /\ lastReq.sent.client_secret = Some("tA")
    /\ Refused(lastResp, "unsupported_grant_type")
    /\ includes(lastResp.body.error_description, "password")

\* C8: a client_credentials request with no or an empty client_secret, and a
\* refresh_token request with no or an empty refresh_token, is answered 400
\* with error "invalid_request" and no access token.
C8_MissingSecretIsInvalidRequest ==
    LET f == lastReq.sent
    IN  ( /\ TokenExchange
          /\ \/ /\ f.grant_type = Some("client_credentials")
                /\ f.client_secret \in {None, Some("")}
             \/ /\ f.grant_type = Some("refresh_token")
                /\ f.refresh_token \in {None, Some("")} )
        => Refused(lastResp, "invalid_request")

C8_Witness ==
    /\ TokenExchange
    /\ lastReq.sent.grant_type = Some("client_credentials")
    /\ lastReq.sent.client_secret = None
    /\ lastReq.sent.refresh_token = Some("tA")
    /\ Refused(lastResp, "invalid_request")

\* The token request that writes fields f with content type ct
TokenRequest(ct, f) == Request("POST", "/token", None, ct, BodyText(f), NoCall, f)

C10_RefreshEchoesAndRepeats ==
    /\ [](\A R \in Secrets :
             ( /\ TokenExchange
               /\ lastReq.sent.grant_type = Some("refresh_token")
               /\ lastReq.sent.refresh_token = Some(R) )
             => /\ Granted(lastResp)
                /\ lastResp.body.access_token = Str(R)
                /\ lastResp.body.refresh_token = Str(R))
    /\ [][lastReq'.sent.replay => lastResp' = lastResp]_vars

C10_Witness ==
    /\ TokenExchange
    /\ lastReq.sent.replay
    /\ lastReq.sent.refresh_token = Some("p&q= +%\"\\")
    /\ Granted(lastResp)
    /\ lastResp.body.refresh_token = Str("p&q= +%\"\\")

-----------------------------------------------------------------------------
(* Claims about body parsing, checked under SpecOAuth *)

\* The text holds at least one name=value pair
HoldsFormField(text) == IndexFrom(text, "=", 1) # 0

\* A body that is neither form data (no name=value pair) nor a JSON text
Unparseable(text) == text # "" /\ ~HoldsFormField(text) /\ ~JSONparse(text).ok

\* C11: a token request whose body parses neither as form data nor as JSON
\* is answered 400 with error "invalid_request", whatever content type it
\* declares or fails to declare (so no grant-type answer is given).
C11_UnparseableBodyIsInvalidRequest ==
    (IsTokenPost(lastReq) /\ Unparseable(lastReq.text))
        => Refused(lastResp, "invalid_request")

OtherEncoding(enc) == IF enc = "form" THEN "json" ELSE "form"

\* The request that sends the same fields in the other encoding, declaring
\* that encoding if r declares its own and declaring nothing if r does not
Reencoded(r) ==
    TokenRequest(IF r.contentType = None THEN None
                 ELSE DeclaredType(OtherEncoding(r.sent.enc)),
                 [r.sent EXCEPT !.enc = OtherEncoding(r.sent.enc)])

\* C12: a token request written in one encoding, whether it declares that
\* encoding or declares no content type, is answered exactly as the request
\* that carries the same fields in the other encoding.
C12_EitherEncodingSameResponse ==
    ( /\ IsTokenPost(lastReq)
      /\ lastReq.sent.enc \in {"form", "json"}
      /\ lastReq.contentType \in {None, DeclaredType(lastReq.sent.enc)} )
        => lastResp = tokenResponses[Reencoded(lastReq)]

-----------------------------------------------------------------------------
(* Claims about registration, checked under SpecOAuth *)

IsRegisterPost(r) == r.method = "POST" /\ r.pathname = "/register"

\* The redirect_uris of a parsed registration body (Undefined when the body
\* has no such member)
RedirectUris(text) == Get(JSONparse(text).v, "redirect_uris")

\* The body text is JSON and its redirect_uris is a list with an element
NamesRedirectUris(text) ==
    /\ JSONparse(text).ok
    /\ RedirectUris(text).t = "array"
    /\ Len(RedirectUris(text).items) > 0

\* C13: a registration whose body is any JSON text with redirect_uris
\* missing, not a list, or an empty list is answered 400 with error
\* "invalid_client_metadata" (and so with no client_id or client_secret).
C13_RedirectUrisRequired ==
    ( /\ IsRegisterPost(lastReq)
      /\ JSONparse(lastReq.text).ok
      /\ ~NamesRedirectUris(lastReq.text) )
        => Refused(lastResp, "invalid_client_metadata")

Registered(request, response) ==
    /\ IsRegisterPost(request)
    /\ response.status = 201
    /\ response.body.kind = "client"

\* The pair a registration record holds, and the random bytes it was made of
PairOf(x) == <<x[1], x[2]>>
DrawOf(x) == <<x[3], x[4]>>

\* C14 (as stated): over any sequence of successful registrations no two
\* calls yield the same client_id/client_secret pair.
C14_NoTwoRegistrationsSamePair ==
    Cardinality({PairOf(x) : x \in issued}) = nRegistered

\* C14 (amended): a POST /register whose body names a non-empty
\* redirect_uris list is answered 201 with a record that echoes that list
\* and holds the pair made by this call from its own random bytes: the
\* client_id is the 32 hexadecimal digits of 16 bytes, the client_secret the
\* 64 digits of 32 bytes.  Registrations that drew different bytes hold
\* different pairs; nothing but the random source keeps two draws apart.
C14_RegistrationHandsOutItsDraw ==
    /\ (IsRegisterPost(lastReq) /\ NamesRedirectUris(lastReq.text))
         => /\ Registered(lastReq, lastResp)
            /\ lastResp.body.redirect_uris = RedirectUris(lastReq.text)
            /\ Len(lastResp.body.client_id) = 32
            /\ Len(lastResp.body.client_secret) = 64
            /\ \E x \in issued :
                 /\ PairOf(x) = <<lastResp.body.client_id, lastResp.body.client_secret>>
                 /\ PairOf(x) = <<generateId(x[3], 1, 16), generateId(x[4], 1, 32)>>
    /\ \A x, y \in issued : DrawOf(x) # DrawOf(y) => PairOf(x) # PairOf(y)
    /\ \A x, y \in issued : x[3] # y[3] => x[1] # y[1]

C14_Witness ==
    /\ Registered(lastReq, lastResp)
    /\ NamesRedirectUris(lastReq.text)
    /\ nRegistered = 2
    /\ \E x, y \in issued : x[3] # y[3] /\ x[4] # y[4]

(* Claims about both handlers, checked under SpecOAuth *)

\* A request the edge worker hands to handleRegister or handleToken
IsHandled(r) == r.method # "OPTIONS" /\ r.pathname \in {"/register", "/token"}

HandlerStatuses(r) == IF r.pathname = "/register" THEN {201, 400, 405} ELSE {200, 400, 405}

\* C15: every outcome of the register and token handlers is a response (201,
\* 400 or 405 from /register; 200, 400 or 405 from /token): no method and no
\* body, JSON non-objects such as null included, makes a handler throw.
C15_HandlersAlwaysRespond ==
    IsHandled(lastReq)
        => /\ lastResp.body.kind # "exception"
           /\ lastResp.status \in HandlerStatuses(lastReq)

(* Claims about response headers *)

FacadePaths ==
    { "/.well-known/oauth-authorization-server", "/.well-known/oauth-protected-resource",
      "/.well-known/oauth-protected-resource/mcp", "/register", "/token" }

\* The handler of an OAuth route answered request r with response
FacadeAnswered(r, response) ==
    /\ r.method # "OPTIONS"
    /\ r.pathname \in FacadePaths
    /\ response.body.kind # "exception"

\* C16: every response of the OAuth routes (both metadata documents, the
\* registration record and its errors, the token response and its errors)
\* carries Cache-Control: no-store.
C16_FacadeResponsesNoStore ==
    FacadeAnswered(lastReq, lastResp) => lastResp.cacheControl = Some("no-store")

C16_Witness ==
    /\ FacadeAnswered(lastReq, lastResp)
    /\ lastReq.pathname = "/.well-known/oauth-protected-resource/mcp"
    /\ lastResp.status = 200
    /\ lastResp.cacheControl = Some("no-store")

\* Request r was answered with a response of the program
Answered(r, response) == r # NoRequest /\ response.body.kind # "exception"

\* C17: every HTTP response, on every route (preflight, OAuth metadata,
\* /register, /token, favicon, info page), carries
\* Access-Control-Allow-Origin: *.
C17_EveryResponseAllowsAnyOrigin ==
    Answered(lastReq, lastResp) => lastResp.allowOrigin = Some("*")

(* Claims about the GitHub API client *)

\* C18: an outbound request carries "Authorization: Bearer <credential>"
\* exactly when the server instance holds a credential; with the credential
\* absent or empty it carries no Authorization header; for the JSON
\* and the raw fetcher of every server variant.
C18_AuthorizationOnlyWithCredential ==
    \A c \in InFlight :
        \A i \in 1..Len(conns[c].out) :
            conns[c].out[i].authorization = Authorizes(conns[c].pat)

\* C19: when the upstream answers a tool's request with a non-success
\* status, the tool call fails with an error whose message is "GitHub API ",
\* the status code, ": " and the whole upstream body, character for
\* character; no result is returned for that call.
C19_FailureMessageEmbedsStatusAndBody ==
    \A c \in InFlight :
        (conns[c].pc = "done" /\ Len(conns[c].out) > 0 /\ ~ok(conns[c].status))
            => /\ conns[c].isError
               /\ conns[c].error =
                      Some("GitHub API " \o NatToString(conns[c].status)
                           \o ": " \o conns[c].text)

C19_Witness ==
    \E c \in InFlight :
        /\ conns[c].pc = "done"
        /\ conns[c].call.tool = "get_readme"
        /\ conns[c].status = 404
        /\ conns[c].error =
               Some("GitHub API 404: {\"message\":\"Not Found\",\"status\":\"404\"}")

(* Claims about the paginated tools, checked under SpecTools *)

PaginatedTools ==
    {"search_repos", "search_code", "list_commits", "list_issues", "get_issue_comments",
     "list_pulls"}

\* The query parameters of an outbound URL, as the upstream reads them
QueryOf(url) ==
    IF IndexFrom(url, "?", 1) = 0 THEN Obj(<<>>)
    ELSE URLSearchParams(Sub(url, IndexFrom(url, "?", 1), Len(url)))

\* C20: for every paginated tool and every numeric per_page argument n, the
\* per_page value in the query string of the outbound request is min(n, 30):
\* 30 for n of 31 or more, n itself for n of 30 or less.
C20_PerPageIsClamped ==
    \A c \in InFlight :
        ( /\ conns[c].call.tool \in PaginatedTools
          /\ Len(conns[c].out) > 0
          /\ conns[c].call.per_page.some )
            => Get(QueryOf(conns[c].out[1].url), "per_page") =
                   Str(IF conns[c].call.per_page.v >= 31 THEN "30"
                       ELSE NumberToString(conns[c].call.per_page.v))

C20_Witness ==
    \E c \in InFlight :
        /\ conns[c].call.tool = "list_issues"
        /\ Len(conns[c].out) = 1
        /\ conns[c].call.per_page = Some(100)
        /\ conns[c].call.labels = Some("bug&per_page=100")
        /\ conns[c].out[1].url =
               "https://api.github.com/repos/anthropics/courses/issues?state=all&per_page=30&labels=bug%26per_page%3D100"

(* Claims about the returned payloads, checked under SpecTools and Spec *)

\* The texts the upstream answers 200 with and the texts the handlers return
PayloadTexts ==
    UNION { UpstreamTexts([tool |-> t], 200) : t \in Tools }
    \cup { toolOutcomes[x].result.v : x \in {y \in DOMAIN toolOutcomes : toolOutcomes[y].result.some} }

\* Each of them read as JSON, once
Parsed == [text \in PayloadTexts |-> JSONparse(text)] @@ <<>>

\* Tool call c got a 200 answer for the named tool
Answered200(c, tool) ==
    /\ conns[c].pc = "done"
    /\ conns[c].call.tool = tool
    /\ conns[c].status = 200

HasPullRequest(entry) == IsTruthy(Get(entry, "pull_request"))

NumbersOf(entries) == [i \in 1..Len(entries) |-> Get(entries[i], "number")]

\* C21: list_issues leaves out every entry of the upstream list that has
\* pull_request set, keeps every entry without it, and returns the kept
\* entries in upstream order.
C21_PullRequestsFilteredInOrder ==
    \A c \in InFlight :
        (Answered200(c, "list_issues") /\ Parsed[conns[c].text].v.t = "array")
            => /\ conns[c].result.some
               /\ Parsed[conns[c].result.v].ok
               /\ Parsed[conns[c].result.v].v.t = "array"
               /\ NumbersOf(Parsed[conns[c].result.v].v.items) =
                      NumbersOf(SelectSeq(Parsed[conns[c].text].v.items,
                                          LAMBDA e : ~HasPullRequest(e)))

C21_Witness ==
    \E c \in InFlight :
        /\ Answered200(c, "list_issues")
        /\ NumbersOf(Parsed[conns[c].text].v.items) = <<Num(1), Num(2), Num(3), Num(4)>>
        /\ conns[c].result.some
        /\ NumbersOf(Parsed[conns[c].result.v].v.items) = <<Num(1), Num(3), Num(4)>>

\* C22: a get_repo call with {owner, repo} issues one request, for
\* /repos/<owner>/<repo>, and once the upstream has answered 200 with a
\* repository object the returned text is a JSON object whose name is the
\* upstream full_name and whose stars is the upstream stargazers_count.
C22_GetRepoReshapesNameAndStars ==
    \A c \in InFlight :
        conns[c].call.tool = "get_repo"
            => /\ conns[c].pc \in {"awaiting", "done"}
                   => /\ Len(conns[c].out) = 1
                      /\ conns[c].out[1].url =
                             "https://api.github.com/repos/" \o conns[c].call.owner
                                 \o "/" \o conns[c].call.repo
               /\ Answered200(c, "get_repo")
                   => /\ ~conns[c].isError
                      /\ conns[c].result.some
                      /\ Parsed[conns[c].result.v].ok
                      /\ Parsed[conns[c].result.v].v.t = "object"
                      /\ Get(Parsed[conns[c].result.v].v, "name") =
                             Get(Parsed[conns[c].text].v, "full_name")
                      /\ Get(Parsed[conns[c].result.v].v, "stars") =
                             Get(Parsed[conns[c].text].v, "stargazers_count")

C22_Witness ==
    \E c \in InFlight :
        /\ Answered200(c, "get_repo")
        /\ Get(Parsed[conns[c].text].v, "full_name") = Str("a/b \"c\"")
        /\ Get(Parsed[conns[c].result.v].v, "name") = Str("a/b \"c\"")
        /\ Get(Parsed[conns[c].result.v].v, "stars") = Num(0)
        /\ Get(Parsed[conns[c].text].v, "forks_count") = Undefined

(* Claims about argument validation, checked under SpecTools *)

SentArguments(c) == "arguments" \in DOMAIN conns[c].call

\* Whether arguments satisfy the schema of list_issues or list_pulls as the
\* source declares it
Conforms(tool, a) ==
    /\ a.t = "object"
    /\ Get(a, "owner").t = "string"
    /\ Get(a, "repo").t = "string"
    /\ \/ Get(a, "state").t = "undefined"
       \/ Get(a, "state") \in {Str("open"), Str("closed"), Str("all")}
    /\ tool = "list_issues" => Get(a, "labels").t \in {"undefined", "string"}
    /\ Get(a, "per_page").t \in {"undefined", "number"}

ArgumentNames == {"", "owner", "repo", "state", "labels", "per_page"}

\* C23: a list_issues or list_pulls call whose arguments fail the schema (a
\* required field missing, a value of the wrong type, a state outside
\* {open, closed, all}) issues no outbound request and ends with a
\* validation error; a call that has issued a request has arguments that
\* satisfy the schema.
C23_InvalidArgumentsNeverReachUpstream ==
    \A c \in InFlight :
        SentArguments(c)
            => IF Conforms(conns[c].call.tool, conns[c].call.arguments)
               THEN /\ conns[c].pc \in {"awaiting", "done"} => Len(conns[c].out) = 1
                    /\ conns[c].pc = "done"
                           => \A f \in ArgumentNames :
                                  conns[c].error # Some(InvalidParams(conns[c].call.tool, f))
               ELSE /\ conns[c].out = <<>>
                    /\ conns[c].pc \in {"created", "done"}
                    /\ conns[c].pc = "done"
                           => /\ conns[c].isError
                              /\ conns[c].result = None
                              /\ \E f \in ArgumentNames :
                                     conns[c].error = Some(InvalidParams(conns[c].call.tool, f))

C23_Witness ==
    \E c \in InFlight :
        /\ SentArguments(c)
        /\ conns[c].call.tool = "list_issues"
        /\ Get(conns[c].call.arguments, "state") = Str("merged")
        /\ conns[c].pc = "done"
        /\ conns[c].error = Some("Invalid arguments for tool list_issues: state")
        /\ conns[c].out = <<>>

(* Claims about the outbound trace of a call, checked under Spec *)

\* C24: a tool call issues at most one outbound request; when the upstream
\* refuses it the call ends at once with that failure and the trace still
\* holds the one request; on the edge a call made with a caller's bearer
\* token has no request in its trace that carries anything else, so a
\* refused request is not sent again under the default credential.
C24_OneRequestNeverRetried ==
    \A c \in InFlight :
        /\ Len(conns[c].out) <= 1
        /\ conns[c].pc = "awaiting" => Len(conns[c].out) = 1
        /\ (conns[c].pc = "done" /\ conns[c].call # NoCall /\ ~ok(conns[c].status))
               => /\ Len(conns[c].out) = 1
                  /\ conns[c].isError
                  /\ conns[c].result = None
                  /\ conns[c].error = Some(ApiError(conns[c].status, conns[c].text))
        /\ (deployment = "edge" /\ Truthy(conns[c].token))
               => \A i \in 1..Len(conns[c].out) :
                      conns[c].out[i].authorization = Bearer(conns[c].token.v)

C24_Witness ==
    \E c \in InFlight :
        /\ deployment = "edge"
        /\ GITHUB_PAT = Some("tD")
        /\ conns[c].token = Some("tA")
        /\ conns[c].pc = "done"
        /\ conns[c].status = 404
        /\ conns[c].isError
        /\ conns[c].out = <<ToolRequest(conns[c].call, Some("tA"))>>

(* Claims about concurrent requests, checked under SpecConcurrent *)

\* The credential a request is to be served with: on the edge the token of
\* its own bearer header, else the default; in the local process the
\* credential configured at start
OwnCredential(conn) ==
    IF deployment = "local" THEN ConfiguredAtStart
    ELSE IF \E cred \in Creds : conn.authorization = Bearer(cred)
         THEN Some(CHOOSE cred \in Creds : conn.authorization = Bearer(cred))
         ELSE GITHUB_PAT

\* A server instance bound to a credential, all of whose outbound requests
\* are authorized with it
Serves(conn, credential) ==
    /\ conn.pat = credential
    /\ \A i \in 1..Len(conn.out) : conn.out[i].authorization = Authorizes(credential)

\* C25: under every interleaving of concurrent /mcp requests, after every
\* step each request in flight has its own server instance bound to its own
\* resolved credential (its bearer token, else the startup default) and its
\* outbound requests carry that credential and not the token of another
\* request; a step of one request, its failure included, leaves every other
\* request's instance as it was; and the default credential is never
\* modified.
C25_ConcurrentRequestsAreIsolated ==
    [][ /\ <<GITHUB_PAT, argv, processEnv, pat>>' = <<GITHUB_PAT, argv, processEnv, pat>>
        /\ \A c \in DOMAIN conns :
               /\ conns'[c].pc # "free" => Serves(conns'[c], OwnCredential(conns'[c]))
               /\ conns'[c] # conns[c]
                      => \A d \in DOMAIN conns \ {c} : conns'[d] = conns[d]
               /\ \A d \in DOMAIN conns \ {c}, i \in 1..Len(conns'[c].out) :
                      ( /\ Truthy(conns'[d].token)
                        /\ conns'[d].token # OwnCredential(conns'[c]) )
                          => conns'[c].out[i].authorization # Bearer(conns'[d].token.v) ]_vars

C25_Witness ==
    \E c, d \in InFlight :
        /\ deployment = "edge"
        /\ GITHUB_PAT = Some("tD")
        /\ conns[c].token = Some("tA")
        /\ conns[d].token = Some(" t B")
        /\ conns[c].pc = "done" /\ conns[c].status = 404 /\ conns[c].isError
        /\ conns[d].pc = "done" /\ conns[d].status = 200 /\ ~conns[d].isError
        /\ conns[c].out[1].authorization = Some("Bearer tA")
        /\ conns[d].out[1].authorization = Some("Bearer  t B")

(* Claims about the two tool registries, checked under SpecAgent *)

\* C26: GitHubMCP.init and createServer register the same tool names, and
\* for the same validated arguments (optional ones omitted or given) the
\* request a GitHubMCP handler issues has the URL, path and query, that the
\* handler of createServer builds.
C26_BothRegistriesBuildTheSameUrl ==
    /\ indexToolNames = ToolNames
    /\ \A c \in InFlight :
           \A i \in 1..Len(conns[c].out) :
               conns[c].out[i].url = ToolRequest(conns[c].call, conns[c].pat).url

(* Claims about the metadata document, checked under SpecOAuth *)

\* The grant types the authorization-server metadata advertises
Advertised ==
    LET listed(types) == {types[i] : i \in 1..Len(types)}
    IN  listed(handleMetadata(issuerUrl).body.grant_types_supported)

\* The path of an advertised endpoint below the issuer
EndpointPath(endpoint) == Sub(endpoint, Len(issuerUrl) + 1, Len(endpoint))

IsMetadataGet(r) ==
    r.method = "GET" /\ r.pathname = "/.well-known/oauth-authorization-server"

\* C27: a grant_type sent to the token endpoint is advertised in
\* grant_types_supported exactly when the answer is not
\* unsupported_grant_type; the metadata document names the issuer followed
\* by /token and /register as its endpoints, and a POST to those two paths
\* is answered by handleToken and by handleRegister.
C27_MetadataMatchesTokenEndpoint ==
    /\ IsMetadataGet(lastReq)
           => /\ lastResp = handleMetadata(issuerUrl)
              /\ lastResp.body.token_endpoint = issuerUrl \o "/token"
              /\ lastResp.body.registration_endpoint = issuerUrl \o "/register"
    /\ (TokenExchange /\ lastReq.sent.grant_type.some)
           => (lastReq.sent.grant_type.v \in Advertised
                   <=> ~Refused(lastResp, "unsupported_grant_type"))
    /\ ( /\ lastReq.method = "POST"
         /\ lastReq.pathname = EndpointPath(handleMetadata(issuerUrl).body.token_endpoint) )
           => lastResp = tokenResponses[lastReq]
    /\ ( /\ lastReq.method = "POST"
         /\ lastReq.pathname = EndpointPath(handleMetadata(issuerUrl).body.registration_endpoint) )
           => \E b16 \in RandomBytes(16), b32 \in RandomBytes(32), now \in Clock :
                  lastResp = registerResponses[lastReq, b16, b32, now]

C27_Witness ==
    /\ TokenExchange
    /\ lastReq.sent.grant_type = Some("authorization_code")
    /\ "authorization_code" \in Advertised
    /\ lastReq.pathname = EndpointPath(handleMetadata(issuerUrl).body.token_endpoint)
    /\ Refused(lastResp, "invalid_grant")

(* Claims about headers that carry no bearer token, checked under Spec *)

\* Authorization headers of another scheme, of another letter case, without
\* the space, and with nothing after the scheme
Malformed ==
    {Some("Basic tA"), Some("bearer tA"), Some("BearertA"), Some("Bearer"), Some("Bearer ")}

\* C28: on the edge a /mcp request whose Authorization header does not
\* start with "Bearer " or has an empty token is served as one without a
\* credential: its server instance holds the default GITHUB_PAT, every
\* outbound request is authorized with that default (with none when no
\* default is configured), the header's value is not sent upstream, and the
\* call fails only when the upstream refuses it.
C28_MalformedHeaderFallsBackToDefault ==
    \A c \in InFlight :
        (deployment = "edge" /\ conns[c].authorization \in Malformed)
            => /\ ~Truthy(conns[c].token)
               /\ conns[c].pat = GITHUB_PAT
               /\ \A i \in 1..Len(conns[c].out) :
                      /\ conns[c].out[i].authorization = Authorizes(GITHUB_PAT)
                      /\ conns[c].out[i].authorization # conns[c].authorization
                      /\ GITHUB_PAT # Some("tA")
                             => conns[c].out[i].authorization # Some("Bearer tA")
               /\ conns[c].pc = "done" /\ conns[c].call # NoCall => Len(conns[c].out) = 1
               /\ (conns[c].pc = "done" /\ conns[c].isError) => ~ok(conns[c].status)

C28_Witness ==
    \E c \in InFlight :
        /\ deployment = "edge"
        /\ GITHUB_PAT = Some("tD")
        /\ conns[c].authorization = Some("bearer tA")
        /\ conns[c].call.tool = "get_repo"
        /\ conns[c].pc = "done"
        /\ conns[c].status = 200
        /\ ~conns[c].isError
        /\ conns[c].out = <<ToolRequest(conns[c].call, Some("tD"))>>

(* Claims about what the OAuth routes disclose, checked under SpecOAuth *)

IsFacadeRequest(r) == r.method # "OPTIONS" /\ r.pathname \in FacadePaths

\* The bodies of the token requests of the model as parseBody reads them
tokenBodies == [r \in TokenRequests \cup RefreshRequests |-> parseBody(r)] @@ <<>>

\* The answers the handler of an OAuth route gives to request r: they are
\* fixed by the request, the random bytes and the clock
FacadeAnswers(r) ==
    IF r.pathname = "/.well-known/oauth-authorization-server"
    THEN {handleMetadata(issuerUrl)}
    ELSE IF r.pathname = "/register"
    THEN { registerResponses[r, b16, b32, now] :
               b16 \in RandomBytes(16), b32 \in RandomBytes(32), now \in Clock }
    ELSE IF r.pathname = "/token"
    THEN {tokenResponses[r]}
    ELSE {handleResourceMetadata(issuerUrl \o "/mcp", issuerUrl)}

\* A response body that holds the given secret in one of its strings
Mentions(body, secret) ==
    CASE body.kind = "token" ->
             \/ includes(body.access_token.s, secret)
             \/ includes(body.refresh_token.s, secret)
      [] body.kind = "error" ->
             includes(body.error, secret) \/ includes(body.error_description, secret)
      [] body.kind = "client" ->
             \/ includes(body.client_id, secret)
             \/ includes(body.client_secret, secret)
             \/ includes(body.client_name.s, secret)
             \/ includes(body.token_endpoint_auth_method.s, secret)
      [] body.kind = "metadata" ->
             \/ includes(body.issuer, secret)
             \/ includes(body.token_endpoint, secret)
             \/ includes(body.registration_endpoint, secret)
      [] body.kind = "resource" -> includes(body.resource, secret)
      [] OTHER -> FALSE

\* C29: the answer of the metadata, resource-metadata, /register and /token
\* routes is the one fixed by the request (and the random bytes and clock
\* of a registration) whatever GITHUB_PAT is configured, no string of it
\* holds the configured GITHUB_PAT, and the access_token of a token
\* response is the value of a field of that request's own body.
C29_FacadeNeverDisclosesDefault ==
    IsFacadeRequest(lastReq)
        => /\ lastResp \in FacadeAnswers(lastReq)
           /\ Truthy(GITHUB_PAT) => ~Mentions(lastResp.body, GITHUB_PAT.v)
           /\ lastResp.body.kind = "token"
                  => /\ IsTruthy(lastResp.body.access_token)
                     /\ \E i \in 1..Len(tokenBodies[lastReq].items) :
                            tokenBodies[lastReq].items[i][2] = lastResp.body.access_token

C29_Witness ==
    /\ GITHUB_PAT = Some("tD")
    /\ TokenExchange
    /\ lastReq.sent.grant_type = Some("client_credentials")
    /\ lastReq.sent.client_secret = Some("tA")
    /\ Granted(lastResp)
    /\ lastResp.body.access_token = Str("tA")
    /\ ~Mentions(lastResp.body, "tD")

(* Claims about the query of an outbound request, checked under SpecTools *)

\* C30: no outbound request carries a per_page query parameter above 30,
\* whatever the tool arguments are, owner and repo strings that hold "/",
\* "?" and "&" included.
C30_PerPageNeverAboveThirty ==
    \A c \in InFlight :
        \A i \in 1..Len(conns[c].out) :
            Get(QueryOf(conns[c].out[i].url), "per_page")
                \in {Undefined} \cup {Str(NumberToString(n)) : n \in (0 - 1)..30}

=============================================================================
